---- MODULE Spec2Model ----
(***************************************************************************)
(* A model of the payments toy engine: the Transaction and Account         *)
(* aggregates (src/src/domain), the account view projection                *)
(* (src/src/query/account.rs), the Payments orchestrator                   *)
(* (src/src/payments.rs) and the reader / worker pipeline                  *)
(* (src/src/main.rs).                                                      *)
(*                                                                         *)
(* The specifications share the variables:                                 *)
(*   Spec      the pipeline: the main task, one reader thread, NumWorkers  *)
(*             worker tasks, bounded channels, one event store per worker; *)
(*   FairSpec  Spec with every worker task scheduled again and again;      *)
(*   OrchSpec  one worker in isolation: rows handled one after the other   *)
(*             by the orchestrator on one store;                           *)
(*   AggSpec   commands executed directly on one Account aggregate, as the *)
(*             unit tests of aggregate.rs do;                              *)
(*   DupSpec   two runs of the orchestrator side by side, the second one   *)
(*             fed one extra copy of one row;                              *)
(*   PartSpec  two runs side by side, one with NumWorkers workers and one  *)
(*             with a single worker;                                       *)
(*   StepSpec  the sender thread and the receiver tasks with the handling  *)
(*             of a row in the steps of its execute calls;                 *)
(*   CapSpec   the pipeline with channels of any capacity from 1 up and a  *)
(*             send that blocks on a full channel;                         *)
(*   FairCapSpec  CapSpec with the tasks and the sender thread scheduled   *)
(*             again and again.                                            *)
(***************************************************************************)
EXTENDS Integers, Sequences, FiniteSets, TLC

(***************************************************************************)
(* Bounds of the model.                                                    *)
(***************************************************************************)
\* number of rows the reader takes from the input file
\* (Spec, StepSpec, CapSpec)
MaxInput == 2
\* available_parallelism(): the number of channels, workers and stores
NumWorkers == 2
\* capacity of each channel (the program uses 100); in CapSpec the largest
\* of the capacities tried
QueueCap == 2
\* AggSpec: number of commands executed on the Account aggregate
MaxCommands == 4
\* OrchSpec: number of rows handled by the orchestrator
MaxRows == 5
\* DupSpec, PartSpec: number of rows of the input
MaxFeed == 3

Workers == 0 .. (NumWorkers - 1)

(***************************************************************************)
(* rust_decimal::Decimal: a mantissa m and a scale s, value m / 10^s.      *)
(* Addition and subtraction rescale to the larger scale; comparison is by  *)
(* value.                                                                  *)
(***************************************************************************)
RECURSIVE Pow10(_)
Pow10(n) == IF n = 0 THEN 1 ELSE 10 * Pow10(n - 1)

Dec(m, s) == [m |-> m, s |-> s]

DecZero == Dec(0, 0)

MaxOf(a, b) == IF a >= b THEN a ELSE b

Rescale(d, s) == d.m * Pow10(s - d.s)

DecAdd(a, b) ==
    LET s == MaxOf(a.s, b.s) IN Dec(Rescale(a, s) + Rescale(b, s), s)

DecSub(a, b) ==
    LET s == MaxOf(a.s, b.s) IN Dec(Rescale(a, s) - Rescale(b, s), s)

DecLt(a, b) ==
    LET s == MaxOf(a.s, b.s) IN Rescale(a, s) < Rescale(b, s)

DecEq(a, b) ==
    LET s == MaxOf(a.s, b.s) IN Rescale(a, s) = Rescale(b, s)

(***************************************************************************)
(* Identifiers and amounts of the rows.                                    *)
(***************************************************************************)
Clients == {"c1", "c2", "c3"}

EmptyClient == ""

TxIds == {"t1", "t2"}

\* Option<Decimal>: <<>> is None (an empty amount column), <<d>> is Some(d)
NoAmount == <<>>

Some(d) == <<d>>

One == Dec(10, 1)

Two == Dec(20, 1)

RowAmounts == {One, Two}

\* murmur2(client_id, KAFKA_SEED): a fixed value per client id
Murmur2(c) == CASE c = "c1" -> 0
                [] c = "c2" -> 6
                [] c = "c3" -> 1
                [] OTHER -> 0

get_channel_by_client_id(partition_count, client_id) ==
    Murmur2(client_id) % partition_count

(***************************************************************************)
(* Transaction aggregate (src/src/domain/transaction).                     *)
(***************************************************************************)
\* Transaction::default()
Transaction == [recorded |-> FALSE, tx_type |-> "None", amount |-> DecZero]

TransactionRecorded(id, client_id, amount) ==
    [type |-> "TransactionRecorded", id |-> id, client_id |-> client_id,
     amount |-> amount]

\* faulty variant of Transaction::apply: the recorded flag is not set
TransactionApply_flag_not_set(self, event) == self

\* variant of Transaction::apply: the amount of the event is kept too
TransactionApply_keeps_amount(self, event) ==
    [self EXCEPT !.recorded = TRUE, !.amount = event.amount]

\* Transaction::apply: the event sets the recorded flag and nothing else
TransactionApply(self, event) == [self EXCEPT !.recorded = TRUE]

\* faulty variant of require_new: a recorded transaction passes
require_new_always_ok(transaction) == "Ok"

require_new(transaction) ==
    IF transaction.recorded THEN "DuplicateTransaction" ELSE "Ok"

\* Transaction::record
record(self, p) ==
    IF require_new(self) # "Ok"
    THEN [err |-> require_new(self), events |-> <<>>]
    ELSE [err |-> "Ok",
          events |-> <<TransactionRecorded(p.id, p.client_id, p.amount)>>]

(***************************************************************************)
(* Account aggregate (src/src/domain/account).                             *)
(***************************************************************************)
\* the empty HashMap of disputes: a function with an empty domain
NoDisputes == [t \in {} |-> DecZero]

\* Account::default()
Account == [locked |-> FALSE, funds_available |-> DecZero,
            funds_held |-> DecZero, disputes |-> NoDisputes]

AccountEvent(type, p, amount) ==
    [type |-> type, client_id |-> p.client_id,
     transaction_id |-> p.transaction_id, amount |-> amount]

MapInsert(map, k, v) == [x \in DOMAIN map \cup {k} |-> IF x = k THEN v ELSE map[x]]

MapRemove(map, k) == [x \in DOMAIN map \ {k} |-> map[x]]

\* faulty variant of Account::apply: a resolved dispute stays in the map
AccountApply_resolve_keeps_dispute(self, event) ==
    CASE event.type = "AccountDeposited" ->
           [self EXCEPT !.funds_available = DecAdd(@, event.amount)]
      [] event.type = "AccountWithdrawn" ->
           [self EXCEPT !.funds_available = DecSub(@, event.amount)]
      [] event.type = "FundsDisputed" ->
           [self EXCEPT
              !.disputes = MapInsert(@, event.transaction_id, event.amount),
              !.funds_available = DecSub(@, event.amount),
              !.funds_held = DecAdd(@, event.amount)]
      [] event.type = "DisputeResolved" ->
           [self EXCEPT
              !.funds_available = DecAdd(@, event.amount),
              !.funds_held = DecSub(@, event.amount)]
      [] event.type = "DisputeChargedback" ->
           [self EXCEPT
              !.locked = TRUE,
              !.funds_held = DecSub(@, event.amount)]

\* faulty variant of Account::apply: a chargeback gives the amount back to
\* the available funds, as a resolve does
AccountApply_chargeback_returns_funds(self, event) ==
    CASE event.type = "AccountDeposited" ->
           [self EXCEPT !.funds_available = DecAdd(@, event.amount)]
      [] event.type = "AccountWithdrawn" ->
           [self EXCEPT !.funds_available = DecSub(@, event.amount)]
      [] event.type = "FundsDisputed" ->
           [self EXCEPT
              !.disputes = MapInsert(@, event.transaction_id, event.amount),
              !.funds_available = DecSub(@, event.amount),
              !.funds_held = DecAdd(@, event.amount)]
      [] event.type = "DisputeResolved" ->
           [self EXCEPT
              !.disputes = MapRemove(@, event.transaction_id),
              !.funds_available = DecAdd(@, event.amount),
              !.funds_held = DecSub(@, event.amount)]
      [] event.type = "DisputeChargedback" ->
           [self EXCEPT
              !.locked = TRUE,
              !.funds_available = DecAdd(@, event.amount),
              !.funds_held = DecSub(@, event.amount)]

\* Account::apply
AccountApply(self, event) ==
    CASE event.type = "AccountDeposited" ->
           [self EXCEPT !.funds_available = DecAdd(@, event.amount)]
      [] event.type = "AccountWithdrawn" ->
           [self EXCEPT !.funds_available = DecSub(@, event.amount)]
      [] event.type = "FundsDisputed" ->
           [self EXCEPT
              !.disputes = MapInsert(@, event.transaction_id, event.amount),
              !.funds_available = DecSub(@, event.amount),
              !.funds_held = DecAdd(@, event.amount)]
      [] event.type = "DisputeResolved" ->
           [self EXCEPT
              !.disputes = MapRemove(@, event.transaction_id),
              !.funds_available = DecAdd(@, event.amount),
              !.funds_held = DecSub(@, event.amount)]
      [] event.type = "DisputeChargedback" ->
           [self EXCEPT
              !.locked = TRUE,
              !.funds_held = DecSub(@, event.amount)]

\* faulty variant of require_legal_amount: the scale is not checked
require_legal_amount_ignores_scale(amount) ==
    IF amount.m <= 0 THEN "IllegalAmount" ELSE "Ok"

require_legal_amount(amount) ==
    IF amount.m <= 0 THEN "IllegalAmount"
    ELSE IF amount.s > 4 THEN "IllegalAmount"
    ELSE "Ok"

\* faulty variant of require_active_account: a locked account passes
require_active_account_always_ok(account) == "Ok"

require_active_account(account) ==
    IF account.locked THEN "AccountLocked" ELSE "Ok"

\* faulty variant of require_sufficient_funds: any amount passes
require_sufficient_funds_always_ok(account, amount) == "Ok"

\* faulty variant of require_sufficient_funds: an amount equal to the
\* available funds is rejected too
require_sufficient_funds_rejects_equal(account, amount) ==
    IF DecLt(amount, account.funds_available) THEN "Ok" ELSE "InsufficientFunds"

require_sufficient_funds(account, amount) ==
    IF DecLt(account.funds_available, amount) THEN "InsufficientFunds" ELSE "Ok"

require_dispute(account, transaction_id) ==
    IF transaction_id \in DOMAIN account.disputes THEN "Ok" ELSE "DisputeNotFound"

require_no_active_dispute(account, transaction_id) ==
    IF transaction_id \in DOMAIN account.disputes THEN "DuplicateDispute" ELSE "Ok"

\* the first failing guard of a list of guard results, "Ok" when none fails
RECURSIVE FirstError(_)
FirstError(checks) ==
    IF checks = <<>> THEN "Ok"
    ELSE IF Head(checks) # "Ok" THEN Head(checks)
    ELSE FirstError(Tail(checks))

Decide(err, event) ==
    IF err # "Ok" THEN [err |-> err, events |-> <<>>]
    ELSE [err |-> "Ok", events |-> <<event>>]

\* faulty variant of Account::deposit: the available funds are checked as
\* for a withdrawal
deposit_checks_funds(self, p) ==
    Decide(FirstError(<<require_legal_amount(p.amount[1]),
                        require_active_account(self),
                        require_sufficient_funds(self, p.amount[1])>>),
           AccountEvent("AccountDeposited", p, p.amount[1]))

\* Account::deposit
deposit(self, p) ==
    Decide(FirstError(<<require_legal_amount(p.amount[1]),
                        require_active_account(self)>>),
           AccountEvent("AccountDeposited", p, p.amount[1]))

\* Account::withdraw
withdraw(self, p) ==
    Decide(FirstError(<<require_legal_amount(p.amount[1]),
                        require_active_account(self),
                        require_sufficient_funds(self, p.amount[1])>>),
           AccountEvent("AccountWithdrawn", p, p.amount[1]))

\* faulty variant of Account::dispute: the funds are checked before the open
\* dispute
dispute_checks_funds_first(self, p) ==
    Decide(FirstError(<<require_legal_amount(p.amount[1]),
                        require_active_account(self),
                        require_sufficient_funds(self, p.amount[1]),
                        require_no_active_dispute(self, p.transaction_id)>>),
           AccountEvent("FundsDisputed", p, p.amount[1]))

\* Account::dispute
dispute(self, p) ==
    Decide(FirstError(<<require_legal_amount(p.amount[1]),
                        require_active_account(self),
                        require_no_active_dispute(self, p.transaction_id),
                        require_sufficient_funds(self, p.amount[1])>>),
           AccountEvent("FundsDisputed", p, p.amount[1]))

\* faulty variant of Account::resolve_dispute: a tx id without an open
\* dispute is accepted and produces no event
resolve_dispute_missing_is_noop(self, p) ==
    LET err == require_active_account(self)
    IN IF err # "Ok" THEN [err |-> err, events |-> <<>>]
       ELSE IF require_dispute(self, p.transaction_id) # "Ok"
       THEN [err |-> "Ok", events |-> <<>>]
       ELSE [err |-> "Ok",
             events |-> <<AccountEvent("DisputeResolved", p,
                                       self.disputes[p.transaction_id])>>]

\* Account::resolve_dispute
resolve_dispute(self, p) ==
    LET err == FirstError(<<require_active_account(self),
                            require_dispute(self, p.transaction_id)>>)
    IN IF err # "Ok" THEN [err |-> err, events |-> <<>>]
       ELSE [err |-> "Ok",
             events |-> <<AccountEvent("DisputeResolved", p,
                                       self.disputes[p.transaction_id])>>]

\* Account::chargeback_dispute
chargeback_dispute(self, p) ==
    LET err == FirstError(<<require_active_account(self),
                            require_dispute(self, p.transaction_id)>>)
    IN IF err # "Ok" THEN [err |-> err, events |-> <<>>]
       ELSE [err |-> "Ok",
             events |-> <<AccountEvent("DisputeChargedback", p,
                                       self.disputes[p.transaction_id])>>]

\* Account::handle
AccountHandle(self, command) ==
    CASE command.type = "DepositAccount" -> deposit(self, command)
      [] command.type = "WithdrawAccount" -> withdraw(self, command)
      [] command.type = "DisputeFunds" -> dispute(self, command)
      [] command.type = "ResolveDispute" -> resolve_dispute(self, command)
      [] command.type = "ChargebackDispute" -> chargeback_dispute(self, command)

(***************************************************************************)
(* Account view projection (src/src/query/account.rs).                     *)
(***************************************************************************)
\* AccountView::default()
AccountView == [client_id |-> "", available_funds |-> DecZero,
                held_funds |-> DecZero, total_funds |-> DecZero,
                is_locked |-> FALSE]

\* faulty variant of AccountView::update: a chargeback leaves the total
update_chargeback_keeps_total(self, event) ==
    CASE event.type = "AccountDeposited" ->
           [self EXCEPT !.client_id = event.client_id,
                        !.available_funds = DecAdd(@, event.amount),
                        !.total_funds = DecAdd(@, event.amount)]
      [] event.type = "AccountWithdrawn" ->
           [self EXCEPT !.available_funds = DecSub(@, event.amount),
                        !.total_funds = DecSub(@, event.amount)]
      [] event.type = "FundsDisputed" ->
           [self EXCEPT !.available_funds = DecSub(@, event.amount),
                        !.held_funds = DecAdd(@, event.amount)]
      [] event.type = "DisputeResolved" ->
           [self EXCEPT !.available_funds = DecAdd(@, event.amount),
                        !.held_funds = DecSub(@, event.amount)]
      [] event.type = "DisputeChargedback" ->
           [self EXCEPT !.held_funds = DecSub(@, event.amount),
                        !.is_locked = TRUE]

\* AccountView::update
update(self, event) ==
    CASE event.type = "AccountDeposited" ->
           [self EXCEPT !.client_id = event.client_id,
                        !.available_funds = DecAdd(@, event.amount),
                        !.total_funds = DecAdd(@, event.amount)]
      [] event.type = "AccountWithdrawn" ->
           [self EXCEPT !.available_funds = DecSub(@, event.amount),
                        !.total_funds = DecSub(@, event.amount)]
      [] event.type = "FundsDisputed" ->
           [self EXCEPT !.available_funds = DecSub(@, event.amount),
                        !.held_funds = DecAdd(@, event.amount)]
      [] event.type = "DisputeResolved" ->
           [self EXCEPT !.available_funds = DecAdd(@, event.amount),
                        !.held_funds = DecSub(@, event.amount)]
      [] event.type = "DisputeChargedback" ->
           [self EXCEPT !.held_funds = DecSub(@, event.amount),
                        !.total_funds = DecSub(@, event.amount),
                        !.is_locked = TRUE]

(***************************************************************************)
(* One worker's sqlite database: the event store of both aggregate types   *)
(* (events and the aggregate snapshot kept by sqlite_aggregate_cqrs) and   *)
(* the accounts view table.                                                *)
(***************************************************************************)
EmptyAccountsTable == [c \in {} |-> AccountView]

EmptyStore ==
    [transactions |-> [t \in TxIds |-> Transaction],
     transaction_events |-> [t \in TxIds |-> <<>>],
     accounts |-> [c \in Clients |-> Account],
     account_events |-> [c \in Clients |-> <<>>],
     accounts_view |-> EmptyAccountsTable]

\* the committed events applied in order to the aggregate or the view row
RECURSIVE TransactionFold(_, _)
TransactionFold(self, events) ==
    IF events = <<>> THEN self
    ELSE TransactionFold(TransactionApply(self, Head(events)), Tail(events))

RECURSIVE AccountFold(_, _)
AccountFold(self, events) ==
    IF events = <<>> THEN self
    ELSE AccountFold(AccountApply(self, Head(events)), Tail(events))

RECURSIVE ViewFold(_, _)
ViewFold(self, events) ==
    IF events = <<>> THEN self
    ELSE ViewFold(update(self, Head(events)), Tail(events))

\* GenericQuery::dispatch: load the row of the view id or the default row,
\* fold the committed events into it and save it
ViewDispatch(table, client_id, events) ==
    LET row == IF client_id \in DOMAIN table THEN table[client_id] ELSE AccountView
    IN MapInsert(table, client_id, ViewFold(row, events))

\* transaction_cqrs.execute: load, handle, commit the events and the snapshot
TransactionExecute(store, p) ==
    LET res == record(store.transactions[p.id], p) IN
    IF res.err # "Ok" \/ res.events = <<>> THEN [store |-> store, err |-> res.err]
    ELSE [store |->
            [store EXCEPT
               !.transactions[p.id] = TransactionFold(@, res.events),
               !.transaction_events[p.id] = @ \o res.events],
          err |-> "Ok"]

\* account_cqrs.execute: load, handle, commit the events and the snapshot,
\* then dispatch the events to the account view query
AccountExecute(store, command) ==
    LET c == command.client_id
        res == AccountHandle(store.accounts[c], command) IN
    IF res.err # "Ok" \/ res.events = <<>> THEN [store |-> store, err |-> res.err]
    ELSE [store |->
            [store EXCEPT
               !.accounts[c] = AccountFold(@, res.events),
               !.account_events[c] = @ \o res.events,
               !.accounts_view = ViewDispatch(@, c, res.events)],
          err |-> "Ok"]

(***************************************************************************)
(* Payments orchestrator (src/src/payments.rs).  Each handler returns the  *)
(* store after the row and what it did: the commands it executed on the    *)
(* two aggregates and their results ("none" when a command was not         *)
(* executed), and whether the handler returned Ok or Err.                  *)
(***************************************************************************)
CsvPaymentRecord(tx_type, client_id, tx_id, amount) ==
    [tx_type |-> tx_type, client_id |-> client_id, tx_id |-> tx_id,
     amount |-> amount]

Done(store, tx_err, acc_cmd, acc_err, result) ==
    [store |-> store,
     out |-> [tx_err |-> tx_err, acc_cmd |-> acc_cmd.type, acc_err |-> acc_err,
              result |-> result]]

\* DepositAccount, WithdrawAccount and DisputeFunds carry an amount
AccountCommand(type, r, amount) ==
    [type |-> type, client_id |-> r.client_id, transaction_id |-> r.tx_id,
     amount |-> <<amount>>]

\* ResolveDispute and ChargebackDispute carry none
DisputeCommand(type, r) ==
    [type |-> type, client_id |-> r.client_id, transaction_id |-> r.tx_id,
     amount |-> <<>>]

NoCommand == [type |-> "none", client_id |-> "", transaction_id |-> "",
              amount |-> <<>>]

RecordTransaction(r, amount) ==
    [id |-> r.tx_id, client_id |-> r.client_id, amount |-> amount]

require_amount(amount_opt) == IF amount_opt = <<>> THEN "Err" ELSE "Ok"

\* load_aggregate of the transactions store: the stored snapshot, or the
\* default aggregate when the id has none; it does not fail on an unknown id
require_transaction(store, tx_id) == store.transactions[tx_id]

\* faulty variant of handle_deposit: the account command is executed even
\* when recording the transaction failed
handle_deposit_ignores_record_error(store, r) ==
    IF require_amount(r.amount) # "Ok"
    THEN Done(store, "none", NoCommand, "none", "Err")
    ELSE LET amount == r.amount[1]
             tx == TransactionExecute(store, RecordTransaction(r, amount))
             cmd == AccountCommand("DepositAccount", r, amount)
             acc == AccountExecute(tx.store, cmd) IN
         Done(acc.store, tx.err, cmd, acc.err,
              IF acc.err = "Ok" THEN "Ok" ELSE "Err")

\* Payments::handle_deposit: both steps end with `?`
handle_deposit(store, r) ==
    IF require_amount(r.amount) # "Ok"
    THEN Done(store, "none", NoCommand, "none", "Err")
    ELSE LET amount == r.amount[1]
             tx == TransactionExecute(store, RecordTransaction(r, amount)) IN
         IF tx.err # "Ok"
         THEN Done(tx.store, tx.err, NoCommand, "none", "Err")
         ELSE LET cmd == AccountCommand("DepositAccount", r, amount)
                  acc == AccountExecute(tx.store, cmd) IN
              Done(acc.store, "Ok", cmd, acc.err,
                   IF acc.err = "Ok" THEN "Ok" ELSE "Err")

\* faulty variant of handle_withdrawal: the account command is executed even
\* when recording the transaction failed
handle_withdrawal_ignores_record_error(store, r) ==
    IF require_amount(r.amount) # "Ok"
    THEN Done(store, "none", NoCommand, "none", "Err")
    ELSE LET amount == r.amount[1]
             tx == TransactionExecute(store, RecordTransaction(r, amount))
             cmd == AccountCommand("WithdrawAccount", r, amount)
             acc == AccountExecute(tx.store, cmd) IN
         Done(acc.store, tx.err, cmd, acc.err, "Ok")

\* faulty variant of handle_withdrawal: the transaction record is undone
\* when the account command is rejected
handle_withdrawal_rolls_back(store, r) ==
    IF require_amount(r.amount) # "Ok"
    THEN Done(store, "none", NoCommand, "none", "Err")
    ELSE LET amount == r.amount[1]
             tx == TransactionExecute(store, RecordTransaction(r, amount)) IN
         IF tx.err # "Ok"
         THEN Done(tx.store, tx.err, NoCommand, "none", "Err")
         ELSE LET cmd == AccountCommand("WithdrawAccount", r, amount)
                  acc == AccountExecute(tx.store, cmd) IN
              Done(IF acc.err = "Ok" THEN acc.store ELSE store,
                   "Ok", cmd, acc.err, "Ok")

\* Payments::handle_withdrawal: the account result is dropped (let _ =)
handle_withdrawal(store, r) ==
    IF require_amount(r.amount) # "Ok"
    THEN Done(store, "none", NoCommand, "none", "Err")
    ELSE LET amount == r.amount[1]
             tx == TransactionExecute(store, RecordTransaction(r, amount)) IN
         IF tx.err # "Ok"
         THEN Done(tx.store, tx.err, NoCommand, "none", "Err")
         ELSE LET cmd == AccountCommand("WithdrawAccount", r, amount)
                  acc == AccountExecute(tx.store, cmd) IN
              Done(acc.store, "Ok", cmd, acc.err, "Ok")

\* Payments::handle_dispute_funds
handle_dispute_funds(store, r) ==
    LET transaction == require_transaction(store, r.tx_id) IN
    IF transaction.tx_type = "Withdrawal"
    THEN Done(store, "none", NoCommand, "none", "Err")
    ELSE LET cmd == AccountCommand("DisputeFunds", r, transaction.amount)
             acc == AccountExecute(store, cmd) IN
         Done(acc.store, "none", cmd, acc.err,
              IF acc.err = "Ok" THEN "Ok" ELSE "Err")

\* Payments::handle_resolve_dispute
handle_resolve_dispute(store, r) ==
    LET transaction == require_transaction(store, r.tx_id)
        cmd == DisputeCommand("ResolveDispute", r)
        acc == AccountExecute(store, cmd)
    IN Done(acc.store, "none", cmd, acc.err, "Ok")

\* Payments::handle_chargeback_dispute
handle_chargeback_dispute(store, r) ==
    LET transaction == require_transaction(store, r.tx_id)
        cmd == DisputeCommand("ChargebackDispute", r)
        acc == AccountExecute(store, cmd)
    IN Done(acc.store, "none", cmd, acc.err, "Ok")

\* Payments::handle
handle(store, r) ==
    CASE r.tx_type = "deposit" -> handle_deposit(store, r)
      [] r.tx_type = "withdrawal" -> handle_withdrawal(store, r)
      [] r.tx_type = "dispute" -> handle_dispute_funds(store, r)
      [] r.tx_type = "resolve" -> handle_resolve_dispute(store, r)
      [] r.tx_type = "chargeback" -> handle_chargeback_dispute(store, r)

(***************************************************************************)
(* State.                                                                  *)
(***************************************************************************)
VARIABLES
    stores,      \* stores[w]: the sqlite database of worker w
    queues,      \* queues[w]: the rows in channel w, oldest first
    reader,      \* the sender thread: "running" or "finished" (senders dropped)
    nread,       \* number of rows the reader has taken from the file
    workers,     \* workers[w]: "running" or "finished" (recv returned Err)
    outcome,     \* OrchSpec, AggSpec: what the most recent handler or command did
    seen,        \* history: tx ids carried by the rows read so far
    sent,        \* history: per worker, tx ids of the deposit and withdrawal
                 \* rows with an amount sent to it so far
    fed,         \* AggSpec, OrchSpec, DupSpec: number of commands or rows fed
    chain,       \* OrchSpec history: how far the rows handled so far follow
                 \* deposit(c, t, a), dispute(c, t), chargeback(c, t), deposits of c
    stores2,     \* DupSpec: the stores of the run fed the extra row
    dup,         \* DupSpec: the row chosen for duplication and whether its
                 \* copy was fed
    main,        \* the main task: the command line it was given, where it
                 \* is, and what it has printed on stdout
    hist,        \* history: the worker each input position was sent to, and
                 \* per worker the input positions handled, in handling order
    temp_dbs,    \* the workers whose database file is on disk: the file is
                 \* made before the first recv of the task, so it is counted
                 \* from the first step of the task's loop at the latest
    send,        \* CapSpec: the capacity the channels were made with, and
                 \* the row the sender thread is blocked on in send, if any
    inflight     \* StepSpec: per receiver task, the row it is handling, the
                 \* channel it came from, the database of the task, the
                 \* execute call it is in and the version that call loaded

vars == <<stores, queues, reader, nread, workers, outcome, seen, sent,
          fed, chain, stores2, dup, main, hist, temp_dbs, send, inflight>>

pipeline_vars == <<queues, reader, nread, workers, seen, sent, main, hist,
                   temp_dbs, send, inflight>>

\* the variables Spec leaves alone
side_vars == <<outcome, fed, chain, stores2, dup, send, inflight>>

NoOutcome == [tx_err |-> "none", acc_cmd |-> "none", acc_err |-> "none",
              result |-> "none"]

\* nothing printed on stdout
NoOutput == [header |-> FALSE, tables |-> [w \in {} |-> EmptyAccountsTable]]

NoHistory == [routed |-> {}, handled |-> [w \in Workers |-> <<>>]]

Init ==
    /\ stores = [w \in Workers |-> EmptyStore]
    /\ queues = [w \in Workers |-> <<>>]
    /\ reader = "unstarted"
    /\ nread = 0
    /\ workers = [w \in Workers |-> "unstarted"]
    /\ main = [pc |-> "invoke", input |-> "unset", out |-> NoOutput]
    /\ hist = NoHistory
    /\ temp_dbs = {}
    /\ send = [cap |-> 0, blocked |-> <<>>]
    /\ inflight = [w \in Workers |-> <<>>]
    /\ outcome = NoOutcome
    /\ seen = {}
    /\ sent = [w \in Workers |-> {}]
    /\ fed = 0
    /\ chain = [stage |-> "start", row |-> <<>>]
    /\ stores2 = [w \in Workers |-> EmptyStore]
    /\ dup = [row |-> <<>>, done |-> FALSE]

(***************************************************************************)
(* The rows a file may hold.                                               *)
(***************************************************************************)
FundsRows ==
    {CsvPaymentRecord(ty, c, t, a) :
        ty \in {"deposit", "withdrawal"}, c \in Clients \cup {EmptyClient},
        t \in TxIds, a \in {NoAmount} \cup {Some(d) : d \in RowAmounts}}

DisputeRows ==
    {CsvPaymentRecord(ty, c, t, NoAmount) :
        ty \in {"dispute", "resolve", "chargeback"},
        c \in Clients \cup {EmptyClient}, t \in TxIds}

Rows == FundsRows \cup DisputeRows

IsFundsRow(r) == r.tx_type \in {"deposit", "withdrawal"}

\* the rows of the files read in Spec
InputRows ==
    {r \in Rows : \/ r.tx_type = "deposit" /\ r.amount \in {NoAmount, Some(One)}
                  \/ r.tx_type = "withdrawal" /\ r.amount = Some(One)
                  \/ r.tx_type = "dispute"}

\* the last element of a non-empty sequence
Last(seq) == seq[Len(seq)]

(***************************************************************************)
(* Spec: the pipeline of main.rs.                                          *)
(***************************************************************************)
\* what the command line names: no path, a path that cannot be opened, a
\* path of a readable file
Inputs == {"no_path", "unreadable", "readable"}

\* the program is started
Invoke(input) ==
    /\ main.pc = "invoke"
    /\ main' = [main EXCEPT !.pc = "load", !.input = input]
    /\ UNCHANGED <<stores, queues, reader, nread, workers, seen, sent, hist,
                   temp_dbs, side_vars>>

\* main, CliArgs::load()?: no input path was passed; main returns the error
LoadArgsFail ==
    /\ main.pc = "load"
    /\ main.input = "no_path"
    /\ main' = [main EXCEPT !.pc = "failed"]
    /\ UNCHANGED <<stores, queues, reader, nread, workers, seen, sent, hist,
                   temp_dbs, side_vars>>

\* main with an input path: the channels are made, the sender thread and the
\* receiver tasks are started, and main waits for them
StartThreads ==
    /\ main.pc = "load"
    /\ main.input # "no_path"
    /\ main' = [main EXCEPT !.pc = "join"]
    /\ reader' = "opening"
    /\ workers' = [w \in Workers |-> "running"]
    /\ UNCHANGED <<stores, queues, nread, seen, sent, hist, temp_dbs,
                   side_vars>>

\* start_sender_thread, read_input(..) returns Ok: the file is open
OpenInput ==
    /\ reader = "opening"
    /\ main.input = "readable"
    /\ reader' = "running"
    /\ UNCHANGED <<stores, queues, nread, workers, seen, sent, main, hist,
                   temp_dbs, side_vars>>

\* start_sender_thread, read_input(..).unwrap() on Err: the thread panics and
\* its senders are dropped
OpenInputFail ==
    /\ reader = "opening"
    /\ main.input = "unreadable"
    /\ reader' = "panicked"
    /\ UNCHANGED <<stores, queues, nread, workers, seen, sent, main, hist,
                   temp_dbs, side_vars>>

\* faulty variant of ReadRow: the channel is chosen by the position of the
\* row in the file, not by its client id
ReadRow_round_robin(r) ==
    LET w == nread % NumWorkers
        entry == [row |-> r,
                  pos |-> nread + 1,
                  no_prior |-> r.tx_id \notin seen,
                  no_prior_funds |-> r.tx_id \notin sent[w]]
    IN /\ reader = "running"
       /\ nread < MaxInput
       /\ r.client_id # EmptyClient
       /\ Len(queues[w]) < QueueCap
       /\ queues' = [queues EXCEPT ![w] = Append(@, entry)]
       /\ nread' = nread + 1
       /\ seen' = seen \cup {r.tx_id}
       /\ sent' = IF IsFundsRow(r) /\ r.amount # NoAmount
                  THEN [sent EXCEPT ![w] = @ \cup {r.tx_id}]
                  ELSE sent
       /\ hist' = [hist EXCEPT !.routed = @ \cup {<<nread + 1, w>>}]
       /\ UNCHANGED <<stores, reader, workers, main, temp_dbs, side_vars>>

\* start_sender_thread, Ok(row) with a client id: route the row and send it;
\* send blocks while the channel is full
ReadRow(r) ==
    LET w == get_channel_by_client_id(NumWorkers, r.client_id)
        entry == [row |-> r,
                  pos |-> nread + 1,
                  no_prior |-> r.tx_id \notin seen,
                  no_prior_funds |-> r.tx_id \notin sent[w]]
    IN /\ reader = "running"
       /\ nread < MaxInput
       /\ r.client_id # EmptyClient
       /\ Len(queues[w]) < QueueCap
       /\ queues' = [queues EXCEPT ![w] = Append(@, entry)]
       /\ nread' = nread + 1
       /\ seen' = seen \cup {r.tx_id}
       /\ sent' = IF IsFundsRow(r) /\ r.amount # NoAmount
                  THEN [sent EXCEPT ![w] = @ \cup {r.tx_id}]
                  ELSE sent
       /\ hist' = [hist EXCEPT !.routed = @ \cup {<<nread + 1, w>>}]
       /\ UNCHANGED <<stores, reader, workers, main, temp_dbs, side_vars>>

\* start_sender_thread, Ok(row) with an empty client id: skipped
SkipRow(r) ==
    /\ reader = "running"
    /\ nread < MaxInput
    /\ r.client_id = EmptyClient
    /\ nread' = nread + 1
    /\ seen' = seen \cup {r.tx_id}
    /\ UNCHANGED <<stores, queues, reader, workers, sent, main, hist, temp_dbs,
                   side_vars>>

\* start_sender_thread, Err(e): a row that does not parse is logged
BadRow ==
    /\ reader = "running"
    /\ nread < MaxInput
    /\ nread' = nread + 1
    /\ UNCHANGED <<stores, queues, reader, workers, seen, sent, main, hist,
                   temp_dbs, side_vars>>

\* end of the file: the thread ends and drops the senders
ReaderFinish ==
    /\ reader = "running"
    /\ reader' = "finished"
    /\ UNCHANGED <<stores, queues, nread, workers, seen, sent, main, hist,
                   temp_dbs, side_vars>>

\* faulty variant of WorkerHandle: the loop ends when handle returns Err
WorkerHandle_stops_on_error(w) ==
    /\ workers[w] = "running"
    /\ queues[w] # <<>>
    /\ stores' = [stores EXCEPT ![w] = handle(@, Head(queues[w]).row).store]
    /\ queues' = [queues EXCEPT ![w] = Tail(@)]
    /\ hist' = [hist EXCEPT !.handled[w] = Append(@, Head(queues[w]).pos)]
    /\ workers' = IF handle(stores[w], Head(queues[w]).row).out.result = "Err"
                  THEN [workers EXCEPT ![w] = "finished"]
                  ELSE workers
    /\ temp_dbs' = temp_dbs \cup {w}
    /\ UNCHANGED <<reader, nread, seen, sent, main, side_vars>>

\* faulty variant of WorkerHandle: the newest row of the channel is taken
WorkerHandle_takes_newest(w) ==
    /\ workers[w] = "running"
    /\ queues[w] # <<>>
    /\ stores' = [stores EXCEPT ![w] = handle(@, Last(queues[w]).row).store]
    /\ queues' = [queues EXCEPT ![w] = SubSeq(@, 1, Len(@) - 1)]
    /\ hist' = [hist EXCEPT !.handled[w] = Append(@, Last(queues[w]).pos)]
    /\ temp_dbs' = temp_dbs \cup {w}
    /\ UNCHANGED <<reader, nread, workers, seen, sent, main, side_vars>>

\* start_receiver_threads, the loop body: recv one row and handle it; the
\* result of handle is logged and dropped.  The task has made its pool, and
\* with it its database file, before the loop.
WorkerHandle(w) ==
    /\ workers[w] = "running"
    /\ queues[w] # <<>>
    /\ stores' = [stores EXCEPT ![w] = handle(@, Head(queues[w]).row).store]
    /\ queues' = [queues EXCEPT ![w] = Tail(@)]
    /\ hist' = [hist EXCEPT !.handled[w] = Append(@, Head(queues[w]).pos)]
    /\ temp_dbs' = temp_dbs \cup {w}
    /\ UNCHANGED <<reader, nread, workers, seen, sent, main, side_vars>>

\* recv on an empty channel whose senders are dropped returns Err: the loop
\* ends and the task returns its pool
WorkerFinish(w) ==
    /\ workers[w] = "running"
    /\ queues[w] = <<>>
    /\ reader \in {"finished", "panicked"}
    /\ workers' = [workers EXCEPT ![w] = "finished"]
    /\ temp_dbs' = temp_dbs \cup {w}
    /\ UNCHANGED <<stores, queues, reader, nread, seen, sent, main, hist,
                   side_vars>>

\* cleanup_temp_dbs: the database file of every pool, with its -shm and -wal
\* files, is removed
cleanup_temp_dbs(files, pools) == files \ pools

\* faulty variant of JoinFail: the error of join is dropped and the header is
\* printed
JoinFail_ignored(opened) ==
    /\ main.pc = "join"
    /\ reader = "panicked"
    /\ temp_dbs \subseteq opened
    /\ main' = [main EXCEPT !.pc = "done", !.out.header = TRUE]
    /\ temp_dbs' = opened
    /\ UNCHANGED <<stores, queues, reader, nread, workers, seen, sent, hist,
                   side_vars>>

\* main, sender_thread.join() returns Err for a panicked thread: main returns
\* the error before anything is printed and before cleanup_temp_dbs.  The
\* receiver tasks run beside main: opened is the set of tasks that have made
\* their pool by the time the process exits, among them every task that has
\* left its first recv.
JoinFail(opened) ==
    /\ main.pc = "join"
    /\ reader = "panicked"
    /\ temp_dbs \subseteq opened
    /\ main' = [main EXCEPT !.pc = "failed"]
    /\ temp_dbs' = opened
    /\ UNCHANGED <<stores, queues, reader, nread, workers, seen, sent, hist,
                   side_vars>>

\* faulty variant of Emit: the receiver tasks are not waited for
Emit_without_join_all ==
    /\ main.pc = "join"
    /\ reader = "finished"
    /\ main' = [main EXCEPT
                  !.pc = "done",
                  !.out = [header |-> TRUE,
                           tables |-> [w \in Workers |-> stores[w].accounts_view]]]
    /\ temp_dbs' = cleanup_temp_dbs(temp_dbs, Workers)
    /\ UNCHANGED <<stores, queues, reader, nread, workers, seen, sent, hist,
                   side_vars>>

\* faulty variant of Emit: only the first worker's database is printed
Emit_first_worker_only ==
    /\ main.pc = "join"
    /\ reader = "finished"
    /\ \A w \in Workers : workers[w] = "finished"
    /\ main' = [main EXCEPT
                  !.pc = "done",
                  !.out = [header |-> TRUE,
                           tables |-> [w \in {0} |-> stores[w].accounts_view]]]
    /\ temp_dbs' = cleanup_temp_dbs(temp_dbs, Workers)
    /\ UNCHANGED <<stores, queues, reader, nread, workers, seen, sent, hist,
                   side_vars>>

\* main, after sender_thread.join() and receiver_threads.join_all(): the
\* header, then print_accounts_csv of every worker's database, then
\* cleanup_temp_dbs of the pools join_all returned
Emit ==
    /\ main.pc = "join"
    /\ reader = "finished"
    /\ \A w \in Workers : workers[w] = "finished"
    /\ main' = [main EXCEPT
                  !.pc = "done",
                  !.out = [header |-> TRUE,
                           tables |-> [w \in Workers |-> stores[w].accounts_view]]]
    /\ temp_dbs' = cleanup_temp_dbs(temp_dbs, Workers)
    /\ UNCHANGED <<stores, queues, reader, nread, workers, seen, sent, hist,
                   side_vars>>

Next ==
    \/ \E input \in Inputs : Invoke(input)
    \/ LoadArgsFail
    \/ StartThreads
    \/ OpenInput
    \/ OpenInputFail
    \/ \E r \in InputRows : ReadRow(r)
    \/ \E r \in InputRows : SkipRow(r)
    \/ BadRow
    \/ ReaderFinish
    \/ \E w \in Workers : WorkerHandle(w)
    \/ \E w \in Workers : WorkerFinish(w)
    \/ \E opened \in SUBSET Workers : JoinFail(opened)
    \/ Emit

Spec == Init /\ [][Next]_vars

\* the loop body of worker w can run: a row is in its channel
HandleEnabled(w) == workers[w] = "running" /\ queues[w] # <<>>

\* the pipeline with every receiver task scheduled again and again: a worker
\* that can take a step is not left waiting forever.  The condition on
\* WorkerHandle is WF_vars(WorkerHandle(w)) with ENABLED written out as the
\* guard of the action.
FairSpec ==
    /\ Spec
    /\ \A w \in Workers : WF_vars(WorkerFinish(w))
    /\ \A w \in Workers :
         ([]<>(~HandleEnabled(w))) \/ ([]<><<WorkerHandle(w)>>_vars)

(***************************************************************************)
(* OrchSpec: the loop of worker 0 in isolation, `payments.handle(row)` row  *)
(* after row on the worker's store, for the rows the reader sends to it.   *)
(***************************************************************************)
\* the rows the reader sends to some worker
SentRows == {r \in Rows : r.client_id # EmptyClient}

\* deposit and withdrawal rows with an amount that Account refuses: -1.0
IllegalAmountRows ==
    {CsvPaymentRecord(ty, c, t, Some(Dec(-10, 1))) :
        ty \in {"deposit", "withdrawal"}, c \in Clients, t \in TxIds}

\* the rows the reader sends to worker 0
WorkerRows ==
    {r \in SentRows \cup IllegalAmountRows :
        get_channel_by_client_id(NumWorkers, r.client_id) = 0}

\* the stage of the chain after row r
ChainStep(c, r) ==
    LET same == /\ c.row # <<>>
                /\ r.client_id = c.row[1].client_id
                /\ r.tx_id = c.row[1].tx_id
    IN CASE c.stage = "start" /\ r.tx_type = "deposit" /\ r.amount # NoAmount ->
              [stage |-> "deposited", row |-> <<r>>]
         [] c.stage = "deposited" /\ r.tx_type = "dispute" /\ same ->
              [c EXCEPT !.stage = "disputed"]
         [] c.stage = "disputed" /\ r.tx_type = "chargeback" /\ same ->
              [c EXCEPT !.stage = "chargedback"]
         [] /\ c.stage = "chargedback" /\ r.tx_type = "deposit"
            /\ r.client_id = c.row[1].client_id ->
              c
         [] OTHER -> [stage |-> "off", row |-> <<>>]

HandleRow(r) ==
    /\ fed < MaxRows
    /\ LET h == handle(stores[0], r) IN
         /\ stores' = [stores EXCEPT ![0] = h.store]
         /\ outcome' = h.out
    /\ fed' = fed + 1
    /\ chain' = ChainStep(chain, r)
    /\ UNCHANGED <<pipeline_vars, stores2, dup>>

OrchNext == \E r \in WorkerRows : HandleRow(r)

OrchSpec == Init /\ [][OrchNext]_vars

(***************************************************************************)
(* AggSpec: commands executed on the Account aggregate of one client       *)
(* through account_cqrs.execute, with legal and illegal amounts.           *)
(***************************************************************************)
AggClient == "c1"

\* 1.0, 0.9999, 0, -1.0 and 1.00000 (scale 5)
CommandAmounts == {One, Dec(9999, 4), DecZero, Dec(-10, 1), Dec(100000, 5)}

AmountCommands ==
    {[type |-> ty, client_id |-> AggClient, transaction_id |-> t, amount |-> <<a>>] :
        ty \in {"DepositAccount", "WithdrawAccount", "DisputeFunds"},
        t \in TxIds, a \in CommandAmounts}

DisputeCommands ==
    {[type |-> ty, client_id |-> AggClient, transaction_id |-> t, amount |-> <<>>] :
        ty \in {"ResolveDispute", "ChargebackDispute"}, t \in TxIds}

Commands == AmountCommands \cup DisputeCommands

Execute(command) ==
    /\ fed < MaxCommands
    /\ LET acc == AccountExecute(stores[0], command) IN
         /\ stores' = [stores EXCEPT ![0] = acc.store]
         /\ outcome' = [tx_err |-> "none", acc_cmd |-> command.type,
                        acc_err |-> acc.err,
                        result |-> IF acc.err = "Ok" THEN "Ok" ELSE "Err"]
    /\ fed' = fed + 1
    /\ UNCHANGED <<pipeline_vars, chain, stores2, dup>>

AggNext == \E command \in Commands : Execute(command)

AggSpec == Init /\ [][AggNext]_vars

(***************************************************************************)
(* DupSpec: the input is fed row by row to two runs; one row of it is      *)
(* chosen and the second run is fed one extra copy of that row, right      *)
(* after the original or at any later position.  Each row is handled by    *)
(* the worker its client id is routed to.                                  *)
(***************************************************************************)
FeedBoth(r) ==
    LET w == get_channel_by_client_id(NumWorkers, r.client_id) IN
    /\ stores' = [stores EXCEPT ![w] = handle(@, r).store]
    /\ stores2' = [stores2 EXCEPT ![w] = handle(@, r).store]
    /\ fed' = fed + 1

\* a row of the input
Feed(r) ==
    /\ fed < MaxFeed
    /\ FeedBoth(r)
    /\ UNCHANGED <<pipeline_vars, outcome, chain, dup>>

\* the row of the input that is duplicated
FeedChosen(r) ==
    /\ fed < MaxFeed
    /\ dup.row = <<>>
    /\ FeedBoth(r)
    /\ dup' = [row |-> <<r>>, done |-> FALSE]
    /\ UNCHANGED <<pipeline_vars, outcome, chain>>

\* the extra copy, in the second run only
FeedCopy ==
    /\ dup.row # <<>>
    /\ ~dup.done
    /\ LET r == dup.row[1]
           w == get_channel_by_client_id(NumWorkers, r.client_id) IN
         stores2' = [stores2 EXCEPT ![w] = handle(@, r).store]
    /\ dup' = [dup EXCEPT !.done = TRUE]
    /\ UNCHANGED <<pipeline_vars, stores, outcome, fed, chain>>

DupNext ==
    \/ \E r \in SentRows : Feed(r)
    \/ \E r \in SentRows : FeedChosen(r)
    \/ FeedCopy

DupSpec == Init /\ [][DupNext]_vars

(***************************************************************************)
(* PartSpec: the input is fed row by row to two runs: in the first each    *)
(* row is handled by the worker its client id is routed to among           *)
(* NumWorkers workers, in the second one worker handles every row.         *)
(***************************************************************************)
FeedPartitioned(r) ==
    LET w == get_channel_by_client_id(NumWorkers, r.client_id)
        single == get_channel_by_client_id(1, r.client_id) IN
    /\ fed < MaxFeed
    /\ stores' = [stores EXCEPT ![w] = handle(@, r).store]
    /\ stores2' = [stores2 EXCEPT ![single] = handle(@, r).store]
    /\ fed' = fed + 1
    /\ UNCHANGED <<pipeline_vars, outcome, chain, dup>>

PartNext == \E r \in SentRows : FeedPartitioned(r)

PartSpec == Init /\ [][PartNext]_vars

(***************************************************************************)
(* StepSpec: the sender thread and the receiver tasks while they run, with *)
(* the handling of a row in the steps of its execute calls: recv, then for *)
(* RecordTransaction and for the Account command a load of the aggregate   *)
(* with its version and a commit of the decided events against that        *)
(* version.  stores2 is the reference: each row is handled there in one    *)
(* piece when it is read.                                                  *)
(***************************************************************************)
\* start_receiver_threads: the channel task core_idx receives from
Receiver(core_idx) == core_idx

\* faulty variant of Db: every task opens the database of task 0
Db_shared(core_idx) == 0

\* start_receiver_threads, sqlite_uri(db_file_suffix, core_idx): the
\* database task core_idx opens
Db(core_idx) == core_idx

\* deposits and withdrawals of 1.0 for a client of channel 0 and a client of
\* channel 1
StepRows ==
    {CsvPaymentRecord(ty, c, t, Some(One)) :
        ty \in {"deposit", "withdrawal"}, c \in {"c1", "c3"}, t \in TxIds}

\* start_sender_thread, Ok(row): route the row and send it
StepRead(r) ==
    LET w == get_channel_by_client_id(NumWorkers, r.client_id)
        entry == [row |-> r, pos |-> nread + 1]
    IN /\ nread < MaxInput
       /\ Len(queues[w]) < QueueCap
       /\ queues' = [queues EXCEPT ![w] = Append(@, entry)]
       /\ nread' = nread + 1
       /\ hist' = [hist EXCEPT !.routed = @ \cup {<<nread + 1, w>>}]
       /\ stores2' = [stores2 EXCEPT ![w] = handle(@, r).store]
       /\ UNCHANGED <<stores, reader, workers, outcome, seen, sent, fed,
                      chain, dup, main, temp_dbs, send, inflight>>

\* not yet loaded
NoVersion == -1

\* receiver.recv() returns a row and payments.handle(row) is entered: the
\* first execute call of a deposit or withdrawal is RecordTransaction
Recv(core_idx) ==
    LET ch == Receiver(core_idx) IN
    /\ inflight[core_idx] = <<>>
    /\ queues[ch] # <<>>
    /\ queues' = [queues EXCEPT ![ch] = Tail(@)]
    /\ inflight' = [inflight EXCEPT ![core_idx] =
                      <<[row |-> Head(queues[ch]).row,
                         pos |-> Head(queues[ch]).pos,
                         chan |-> ch,
                         db |-> Db(core_idx),
                         call |-> "transaction",
                         version |-> NoVersion]>>]
    /\ UNCHANGED <<stores, reader, nread, workers, outcome, seen, sent, fed,
                   chain, stores2, dup, main, hist, temp_dbs, send>>

\* the aggregate id of the execute call a task is in
AggregateId(f) ==
    IF f.call = "transaction" THEN <<"Transaction", f.row.tx_id>>
    ELSE <<"Account", f.row.client_id>>

\* the number of events committed for an aggregate id in a database
Version(store, id) ==
    IF id[1] = "Transaction" THEN Len(store.transaction_events[id[2]])
    ELSE Len(store.account_events[id[2]])

\* execute, first part: the aggregate is loaded with its version
Load(core_idx) ==
    /\ inflight[core_idx] # <<>>
    /\ inflight[core_idx][1].version = NoVersion
    /\ inflight' = [inflight EXCEPT ![core_idx][1].version =
                      Version(stores[inflight[core_idx][1].db],
                              AggregateId(inflight[core_idx][1]))]
    /\ UNCHANGED <<stores, queues, reader, nread, workers, outcome, seen,
                   sent, fed, chain, stores2, dup, main, hist, temp_dbs, send>>

\* execute, second part: the command is decided and its events are
\* committed against the loaded version; a commit against a version that is
\* no longer the current one is refused.  After RecordTransaction the
\* Account command follows unless the record failed; after the Account
\* command handle returns and the loop goes back to recv.
Commit(core_idx) ==
    LET f == inflight[core_idx][1]
        store == stores[f.db]
        amount == f.row.amount[1]
        fresh == f.version = Version(store, AggregateId(f))
        res == IF ~fresh THEN [store |-> store, err |-> "AggregateConflict"]
               ELSE IF f.call = "transaction"
               THEN TransactionExecute(store, RecordTransaction(f.row, amount))
               ELSE AccountExecute(store,
                        AccountCommand(IF f.row.tx_type = "deposit"
                                       THEN "DepositAccount"
                                       ELSE "WithdrawAccount",
                                       f.row, amount))
        more == f.call = "transaction" /\ res.err = "Ok"
    IN /\ inflight[core_idx] # <<>>
       /\ f.version # NoVersion
       /\ stores' = [stores EXCEPT ![f.db] = res.store]
       /\ inflight' = [inflight EXCEPT ![core_idx] =
                         IF more
                         THEN <<[f EXCEPT !.call = "account",
                                          !.version = NoVersion]>>
                         ELSE <<>>]
       /\ hist' = IF more THEN hist
                  ELSE [hist EXCEPT !.handled[core_idx] = Append(@, f.pos)]
       /\ UNCHANGED <<queues, reader, nread, workers, outcome, seen, sent,
                      fed, chain, stores2, dup, main, temp_dbs, send>>

StepNext ==
    \/ \E r \in StepRows : StepRead(r)
    \/ \E core_idx \in Workers : Recv(core_idx)
    \/ \E core_idx \in Workers : Load(core_idx)
    \/ \E core_idx \in Workers : Commit(core_idx)

StepSpec == Init /\ [][StepNext]_vars

(***************************************************************************)
(* CapSpec: the pipeline on a readable input with channels of any capacity *)
(* from 1 to QueueCap, and with the send of the sender thread in two       *)
(* parts: the call, which blocks on a full channel, and its return.        *)
(* stores2 is the reference: each row is handled there when it is read, as *)
(* if nothing ever waited in a channel.                                    *)
(***************************************************************************)
Capacities == 1 .. QueueCap

\* deposits and withdrawals of 1.0 for a client of channel 0 and a client of
\* channel 1
CapRows == StepRows

\* main up to the joins, with bounded(cap) channels, and the sender thread
\* up to the opened file
CapStart(cap) ==
    /\ main.pc = "invoke"
    /\ main' = [main EXCEPT !.pc = "join", !.input = "readable"]
    /\ reader' = "running"
    /\ workers' = [w \in Workers |-> "running"]
    /\ send' = [cap |-> cap, blocked |-> <<>>]
    /\ UNCHANGED <<stores, queues, nread, seen, sent, hist, temp_dbs,
                   outcome, fed, chain, stores2, dup, inflight>>

\* faulty variant of CapSend: a row for a full channel is dropped, as
\* try_send would do
CapSend_drops_when_full(r) ==
    LET w == get_channel_by_client_id(NumWorkers, r.client_id)
        entry == [row |-> r, pos |-> nread + 1]
    IN /\ reader = "running"
       /\ send.blocked = <<>>
       /\ nread < MaxInput
       /\ nread' = nread + 1
       /\ hist' = [hist EXCEPT !.routed = @ \cup {<<nread + 1, w>>}]
       /\ stores2' = [stores2 EXCEPT ![w] = handle(@, r).store]
       /\ queues' = IF Len(queues[w]) < send.cap
                    THEN [queues EXCEPT ![w] = Append(@, entry)]
                    ELSE queues
       /\ UNCHANGED <<stores, reader, workers, seen, sent, main, temp_dbs,
                      outcome, fed, chain, dup, send, inflight>>

\* start_sender_thread, Ok(row): the row is routed and send is called; it
\* returns at once when the channel has room and blocks when it is full
CapSend(r) ==
    LET w == get_channel_by_client_id(NumWorkers, r.client_id)
        entry == [row |-> r, pos |-> nread + 1]
    IN /\ reader = "running"
       /\ send.blocked = <<>>
       /\ nread < MaxInput
       /\ nread' = nread + 1
       /\ hist' = [hist EXCEPT !.routed = @ \cup {<<nread + 1, w>>}]
       /\ stores2' = [stores2 EXCEPT ![w] = handle(@, r).store]
       /\ IF Len(queues[w]) < send.cap
          THEN /\ queues' = [queues EXCEPT ![w] = Append(@, entry)]
               /\ send' = send
          ELSE /\ queues' = queues
               /\ send' = [send EXCEPT !.blocked = <<entry>>]
       /\ UNCHANGED <<stores, reader, workers, seen, sent, main, temp_dbs,
                      outcome, fed, chain, dup, inflight>>

\* the channel the sender thread is blocked on
BlockedOn == get_channel_by_client_id(NumWorkers, send.blocked[1].row.client_id)

\* the blocked send can return: the channel has room again
UnblockEnabled ==
    /\ send.blocked # <<>>
    /\ Len(queues[BlockedOn]) < send.cap

\* the blocked send returns with the row in the channel
CapUnblock ==
    /\ UnblockEnabled
    /\ queues' = [queues EXCEPT ![BlockedOn] = Append(@, send.blocked[1])]
    /\ send' = [send EXCEPT !.blocked = <<>>]
    /\ UNCHANGED <<stores, reader, nread, workers, seen, sent, main, hist,
                   temp_dbs, outcome, fed, chain, stores2, dup, inflight>>

\* end of the file: the thread ends and drops the senders
CapFinish ==
    /\ reader = "running"
    /\ send.blocked = <<>>
    /\ reader' = "finished"
    /\ UNCHANGED <<stores, queues, nread, workers, seen, sent, main, hist,
                   temp_dbs, side_vars>>

CapNext ==
    \/ \E cap \in Capacities : CapStart(cap)
    \/ \E r \in CapRows : CapSend(r)
    \/ CapUnblock
    \/ CapFinish
    \/ \E w \in Workers : WorkerHandle(w)
    \/ \E w \in Workers : WorkerFinish(w)
    \/ Emit

CapSpec == Init /\ [][CapNext]_vars

\* CapSpec with every receiver task scheduled again and again, as in
\* FairSpec, and with the sender thread scheduled again and again while its
\* send can return
FairCapSpec ==
    /\ CapSpec
    /\ \A w \in Workers : WF_vars(WorkerFinish(w))
    /\ \A w \in Workers :
         ([]<>(~HandleEnabled(w))) \/ ([]<><<WorkerHandle(w)>>_vars)
    /\ ([]<>(~UnblockEnabled)) \/ ([]<><<CapUnblock>>_vars)

\* print_accounts_csv over every worker's database: the rows of the table
AccountTable(dbs) ==
    UNION {{dbs[w].accounts_view[c] : c \in DOMAIN dbs[w].accounts_view} :
             w \in Workers}

(***************************************************************************)
(* Properties.                                                             *)
(***************************************************************************)
\* C1: for every account, after each account event is folded into the
\* account view, the row satisfies total == available + held and held >= 0.
C1_ViewTotalIsAvailablePlusHeld ==
    \A w \in Workers : \A c \in DOMAIN stores[w].accounts_view :
        LET row == stores[w].accounts_view[c] IN
        /\ DecEq(row.total_funds, DecAdd(row.available_funds, row.held_funds))
        /\ row.held_funds.m >= 0

\* a row that has folded a deposit, a dispute and a chargeback and still
\* holds funds
C1_Witness ==
    \E w \in Workers : \E c \in DOMAIN stores[w].accounts_view :
        LET row == stores[w].accounts_view[c]
            events == stores[w].account_events[c] IN
        /\ row.is_locked
        /\ row.total_funds.m > 0
        /\ \E i \in 1 .. Len(events) : events[i].type = "FundsDisputed"

\* C2: once an account is locked it stays locked, every later command on it
\* appends no event (Resolve, Chargeback and legal-amount Deposit, Withdraw,
\* Dispute fail with AccountLocked), and DisputeChargedback is the last event
\* of its stream.
C2_ChargebackIrreversible ==
    [][\A command \in Commands :
         LET c == command.client_id
             db == stores[0]
             db2 == stores'[0] IN
         Execute(command) =>
           /\ db.accounts[c].locked =>
                /\ db2.accounts[c].locked
                /\ db2.account_events[c] = db.account_events[c]
                /\ db2.accounts_view = db.accounts_view
                /\ outcome'.acc_err # "Ok"
                /\ (command.amount = <<>>
                      \/ require_legal_amount(command.amount[1]) = "Ok")
                   => outcome'.acc_err = "AccountLocked"
           /\ db2.accounts[c].locked =>
                Last(db2.account_events[c]).type = "DisputeChargedback"]_vars

\* a command was rejected because the account is locked
C2_Witness ==
    /\ stores[0].accounts[AggClient].locked
    /\ outcome.acc_err = "AccountLocked"
    /\ outcome.acc_cmd = "DepositAccount"

\* C3: for a deposit or withdrawal row whose amount is missing or whose
\* RecordTransaction fails with DuplicateTransaction, no Account command is
\* executed and no event is appended to any account stream: accounts and
\* view rows are unchanged.
C3_NoAccountCommandAfterFailedRecord ==
    [][\A r \in WorkerRows :
         (/\ HandleRow(r)
          /\ IsFundsRow(r)
          /\ (r.amount = NoAmount \/ outcome'.tx_err = "DuplicateTransaction"))
         => /\ outcome'.acc_cmd = "none"
            /\ stores'[0].account_events = stores[0].account_events
            /\ stores'[0].accounts = stores[0].accounts
            /\ stores'[0].accounts_view = stores[0].accounts_view]_vars

\* a deposit or withdrawal reusing a recorded tx id was rejected while an
\* account holds funds
C3_Witness ==
    /\ outcome.tx_err = "DuplicateTransaction"
    /\ outcome.acc_cmd = "none"
    /\ \E c \in DOMAIN stores[0].accounts_view :
         stores[0].accounts_view[c].available_funds.m > 0

\* the step appends a TransactionRecorded event for t in database w
RecordsTransaction(w, t) ==
    Len(stores'[w].transaction_events[t]) > Len(stores[w].transaction_events[t])

\* C4, as stated: processing a deposit or withdrawal row with tx id t appends
\* TransactionRecorded for t if and only if no earlier row of the input, of
\* any type and any client, carried tx id t.
C4_RecordedIffNoPriorRow ==
    [][\A w \in Workers :
         (WorkerHandle(w) /\ IsFundsRow(Head(queues[w]).row))
         => LET e == Head(queues[w]) IN
            RecordsTransaction(w, e.row.tx_id) <=> e.no_prior]_vars

\* C4, amended: processing a deposit or withdrawal row with tx id t appends
\* TransactionRecorded for t to the store of the row's worker if and only if
\* the row carries an amount and no earlier deposit or withdrawal row carrying
\* an amount and tx id t was sent to the same worker.
C4_RecordedIffNoPriorFundsRowOnWorker ==
    [][\A w \in Workers :
         (WorkerHandle(w) /\ IsFundsRow(Head(queues[w]).row))
         => LET e == Head(queues[w]) IN
            RecordsTransaction(w, e.row.tx_id)
              <=> (e.row.amount # NoAmount /\ e.no_prior_funds)]_vars

\* one tx id is recorded in the stores of two workers
C4_Witness ==
    \E t \in TxIds : \E w1, w2 \in Workers :
        /\ w1 # w2
        /\ stores[w1].transactions[t].recorded
        /\ stores[w2].transactions[t].recorded

\* C5: RecordTransaction on a fresh tx id emits exactly one
\* TransactionRecorded event, on a recorded id it fails with
\* DuplicateTransaction and emits nothing; every Transaction stream holds at
\* most one event.
C5_TransactionRecordedOnce ==
    [][\A r \in WorkerRows :
         (HandleRow(r) /\ IsFundsRow(r) /\ r.amount # NoAmount)
         => LET t == r.tx_id
                db == stores[0]
                db2 == stores'[0] IN
            /\ IF db.transactions[t].recorded
               THEN /\ outcome'.tx_err = "DuplicateTransaction"
                    /\ db2.transaction_events = db.transaction_events
               ELSE /\ outcome'.tx_err = "Ok"
                    /\ db2.transaction_events[t] =
                         <<TransactionRecorded(t, r.client_id, r.amount[1])>>
            /\ \A u \in TxIds : Len(db2.transaction_events[u]) <= 1]_vars

\* a recorded tx id was offered again and both tx ids are recorded
C5_Witness ==
    /\ outcome.tx_err = "DuplicateTransaction"
    /\ \A t \in TxIds : Len(stores[0].transaction_events[t]) = 1

\* the account stream of c holds an event of this type for tx id t
HasEvent(db, c, type, t) ==
    \E i \in 1 .. Len(db.account_events[c]) :
        /\ db.account_events[c][i].type = type
        /\ db.account_events[c][i].transaction_id = t

\* C6: a dispute row naming tx t, recorded by an earlier deposit of amount a
\* for the same client, whose account is unlocked, has no open dispute on t
\* and has available >= a, appends FundsDisputed with amount exactly a:
\* available decreases by a, held increases by a, total is unchanged.
C6_DisputeMovesDepositedAmount ==
    [][\A r \in WorkerRows : \A a \in RowAmounts :
         LET c == r.client_id
             t == r.tx_id
             db == stores[0]
             db2 == stores'[0] IN
         (/\ HandleRow(r)
          /\ r.tx_type = "dispute"
          /\ db.transaction_events[t] = <<TransactionRecorded(t, c, a)>>
          /\ HasEvent(db, c, "AccountDeposited", t)
          /\ ~db.accounts[c].locked
          /\ t \notin DOMAIN db.accounts[c].disputes
          /\ ~DecLt(db.accounts[c].funds_available, a))
         => /\ db2.account_events[c] =
                 Append(db.account_events[c],
                        [type |-> "FundsDisputed", client_id |-> c,
                         transaction_id |-> t, amount |-> a])
            /\ db2.accounts_view[c].available_funds =
                 DecSub(db.accounts_view[c].available_funds, a)
            /\ db2.accounts_view[c].held_funds =
                 DecAdd(db.accounts_view[c].held_funds, a)
            /\ db2.accounts_view[c].total_funds =
                 db.accounts_view[c].total_funds]_vars

\* C7: after the rows deposit(c, t, a), dispute(c, t), chargeback(c, t) and
\* any further deposits for c, the row of c is locked with held = 0 and with
\* available and total equal to their values before the dispute minus a,
\* which is 0 here as the deposit was the only funds.
C7_DisputeThenChargebackLocks ==
    chain.stage = "chargedback" =>
        LET c == chain.row[1].client_id
            view == stores[0].accounts_view IN
        /\ c \in DOMAIN view
        /\ view[c].is_locked
        /\ DecEq(view[c].held_funds, DecZero)
        /\ DecEq(view[c].available_funds, DecZero)
        /\ DecEq(view[c].total_funds, DecZero)

\* C8: a dispute row whose tx id was recorded by a withdrawal is skipped by
\* the orchestrator: no Account command is executed, no event is appended
\* and the account row is unchanged.
C8_DisputeOfWithdrawalSkipped ==
    [][\A r \in WorkerRows :
         (/\ HandleRow(r)
          /\ r.tx_type = "dispute"
          /\ \E c \in Clients : HasEvent(stores[0], c, "AccountWithdrawn", r.tx_id))
         => /\ outcome'.acc_cmd = "none"
            /\ stores'[0].account_events = stores[0].account_events
            /\ stores'[0].accounts_view = stores[0].accounts_view]_vars

\* C9: for a dispute, resolve or chargeback row naming tx id t an Account
\* command is executed only if Transaction(t) is recorded in the worker's
\* store; otherwise the row is skipped before any Account command.
C9_AccountCommandOnlyForRecordedTransaction ==
    [][\A r \in WorkerRows :
         (/\ HandleRow(r)
          /\ r.tx_type \in {"dispute", "resolve", "chargeback"}
          /\ outcome'.acc_cmd # "none")
         => stores[0].transactions[r.tx_id].recorded]_vars

\* C10: the input with one extra copy of one of its rows, inserted right
\* after the original or at any later position, produces the same account
\* table as the input itself.
C10_DuplicateRowSuppressed ==
    dup.done => AccountTable(stores2) = AccountTable(stores)

\* the copy of a deposit that credited its account was fed after another row
\* changed the table
C10_Witness ==
    /\ dup.done
    /\ dup.row[1].tx_type = "deposit"
    /\ LET r == dup.row[1]
           w == get_channel_by_client_id(NumWorkers, r.client_id) IN
         /\ HasEvent(stores[w], r.client_id, "AccountDeposited", r.tx_id)
         /\ Len(stores[w].account_events[r.client_id]) > 1

\* the stream holds a FundsDisputed for t that no later DisputeResolved or
\* DisputeChargedback for t follows
OpenDispute(events, t) ==
    \E i \in 1 .. Len(events) :
        /\ events[i].type = "FundsDisputed"
        /\ events[i].transaction_id = t
        /\ \A j \in (i + 1) .. Len(events) :
             ~(/\ events[j].type \in {"DisputeResolved", "DisputeChargedback"}
               /\ events[j].transaction_id = t)

\* C11: in every reachable Account aggregate state, tx id t is a key of the
\* disputes map if and only if the account's event stream contains a
\* FundsDisputed for t that is not followed by a DisputeResolved or a
\* DisputeChargedback for t.
C11_DisputeLedger ==
    \A w \in Workers : \A c \in Clients : \A t \in TxIds :
        t \in DOMAIN stores[w].accounts[c].disputes
          <=> OpenDispute(stores[w].account_events[c], t)

\* C12: available >= 0 in every reachable account state; a Withdraw or
\* Dispute of amount a appends its event only when available >= a, and when
\* available < a it appends nothing and fails, with InsufficientFunds once
\* the guards evaluated before the funds check have passed.
C12_AvailableNeverNegative ==
    [][/\ \A d \in Clients : stores'[0].accounts[d].funds_available.m >= 0
       /\ \A command \in AmountCommands :
            LET c == command.client_id
                a == command.amount[1]
                acc == stores[0].accounts[c]
                appended ==
                    stores'[0].account_events[c] # stores[0].account_events[c]
                earlier ==
                    <<require_legal_amount(a),
                      require_active_account(acc),
                      IF command.type = "DisputeFunds"
                      THEN require_no_active_dispute(acc, command.transaction_id)
                      ELSE "Ok">>
            IN (/\ command.type \in {"WithdrawAccount", "DisputeFunds"}
                /\ outcome'.acc_cmd = command.type
                /\ Execute(command))
               => /\ appended => ~DecLt(acc.funds_available, a)
                  /\ DecLt(acc.funds_available, a) =>
                       /\ ~appended
                       /\ stores'[0] = stores[0]
                       /\ outcome'.acc_err # "Ok"
                       /\ FirstError(earlier) = "Ok"
                            => outcome'.acc_err = "InsufficientFunds"]_vars

\* a dispute larger than the positive available funds was rejected
C12_Witness ==
    /\ outcome.acc_cmd = "DisputeFunds"
    /\ outcome.acc_err = "InsufficientFunds"
    /\ stores[0].accounts[AggClient].funds_available.m > 0

\* C13: for every input sequence the set of final account rows produced by
\* NumWorkers workers, each handling the rows of the clients routed to it,
\* equals the one produced by a single worker handling the whole input in
\* order.
C13_TableIndependentOfPartitioning ==
    AccountTable(stores) = AccountTable(stores2)

\* the clients that worker w has a row in its channel or an account event in
\* its store for
ClientsOf(qs, dbs, w) ==
    {qs[w][i].row.client_id : i \in 1 .. Len(qs[w])}
      \cup {c \in Clients : dbs[w].account_events[c] # <<>>}

\* C14: for a fixed number of workers the worker index is a function of the
\* client id only: every row is sent to the channel of its client id, an
\* account stream is appended to only by the worker of its client, and no
\* client has rows or account events at two workers.
C14_PartitionStable ==
    [][/\ \A w \in Workers :
            Len(queues'[w]) > Len(queues[w])
              => get_channel_by_client_id(NumWorkers,
                                          Last(queues'[w]).row.client_id) = w
       /\ \A w \in Workers : \A c \in Clients :
            stores'[w].account_events[c] # stores[w].account_events[c]
              => /\ get_channel_by_client_id(NumWorkers, c) = w
                 /\ \A w2 \in Workers \ {w} : stores'[w2].account_events[c] = <<>>
       /\ \A w1, w2 \in Workers :
            w1 # w2 => ClientsOf(queues', stores', w1)
                         \cap ClientsOf(queues', stores', w2) = {}]_vars

\* two rows of one client were handled by one worker, both appended an event
\* to the client's stream, and no other worker has events
C14_Witness ==
    \E w \in Workers : \E c \in Clients :
        /\ Len(stores[w].account_events[c]) = 2
        /\ Len(hist.handled[w]) = 2
        /\ \A w2 \in Workers \ {w} : hist.handled[w2] = <<>>

\* C15: under every interleaving of the reader and the workers, each worker
\* handles the rows sent to it in the order of their positions in the input,
\* and the event a row produces is appended at the end of the stream of the
\* row's client in the step that handles the row; so for every client the
\* events of its stream are in the order of the rows that produced them.
C15_PerClientFifo ==
    [][\A w \in Workers :
         WorkerHandle(w) =>
           LET e == Head(queues[w])
               c == e.row.client_id
               old == stores[w].account_events
               new == stores'[w].account_events
               done == hist'.handled[w]
           IN /\ \A i, j \in 1 .. Len(done) : i < j => done[i] < done[j]
              /\ \A i \in 1 .. Len(queues'[w]) : queues'[w][i].pos > e.pos
              /\ \A d \in Clients \ {c} : new[d] = old[d]
              /\ \/ new[c] = old[c]
                 \/ /\ Len(new[c]) = Len(old[c]) + 1
                    /\ SubSeq(new[c], 1, Len(old[c])) = old[c]
                    /\ Last(new[c]).client_id = c
                    /\ Last(new[c]).transaction_id = e.row.tx_id]_vars

\* the rows at positions 1 and 2 of the input, of one client, were handled in
\* that order by one worker and each appended an event to the client's stream
C15_Witness ==
    \E w \in Workers : \E c \in Clients :
        /\ Len(stores[w].account_events[c]) = 2
        /\ stores[w].account_events[c][1].transaction_id
             # stores[w].account_events[c][2].transaction_id
        /\ hist.handled[w] = <<1, 2>>

\* the number of times input position p occurs in a sequence of positions
Occurrences(positions, p) ==
    Cardinality({i \in 1 .. Len(positions) : positions[i] = p})

\* the input positions of the rows in a channel
QueuedPositions(q) == [i \in 1 .. Len(q) |-> q[i].pos]

\* C16: no record-level failure stops processing: after any row (unparsable,
\* with an empty client id, or sent) the reader is still running; after any
\* row it handles, whatever handle returned, the worker is still running and
\* ends only on an empty channel whose senders are dropped; every row sent
\* is, at any time, once in the channel of its worker or once among the rows
\* that worker has handled, and nowhere else; when the table is emitted every
\* row sent has been handled.
C16_NoFailureStopsProcessing ==
    [][/\ nread' > nread => reader' = "running"
       /\ \A w \in Workers : WorkerHandle(w) => workers'[w] = "running"
       /\ \A w \in Workers :
            workers'[w] = "finished"
              => queues'[w] = <<>> /\ reader' \in {"finished", "panicked"}
       /\ \A pw \in hist'.routed : \A w \in Workers :
            Occurrences(QueuedPositions(queues'[w]), pw[1])
              + Occurrences(hist'.handled[w], pw[1])
              = IF w = pw[2] THEN 1 ELSE 0
       /\ \A w \in Workers : \A p \in 1 .. MaxInput :
            Occurrences(QueuedPositions(queues'[w]), p)
              + Occurrences(hist'.handled[w], p) > 0
              => <<p, w>> \in hist'.routed
       /\ main'.pc = "done"
            => \A pw \in hist'.routed :
                 Occurrences(hist'.handled[pw[2]], pw[1]) = 1]_vars

\* the first row of the input was unparsable or had no client id and was
\* sent to no channel; the second row was sent, handled and credited an
\* account, and the table was emitted
C16_Witness ==
    /\ main.pc = "done"
    /\ nread = 2
    /\ \E w \in Workers :
         /\ hist.routed = {<<2, w>>}
         /\ hist.handled[w] = <<2>>
         /\ \E c \in Clients : Len(stores[w].account_events[c]) = 1

\* every row sent has been handled by its worker
AllHandled ==
    \A pw \in hist.routed : Occurrences(hist.handled[pw[2]], pw[1]) = 1

\* C17: for every finite input, once the reader has reached the end of the
\* input and dropped the senders, every worker eventually has handled all
\* the rows of its channel and has terminated; and the output (the header
\* and the table) is emitted only after all workers have terminated.
C17_ShutdownAndEmit ==
    /\ [](main.out.header => \A w \in Workers : workers[w] = "finished")
    /\ (reader = "finished")
         ~> (/\ \A w \in Workers : workers[w] = "finished" /\ queues[w] = <<>>
             /\ AllHandled)

\* the table was emitted after a run in which one worker was sent two rows:
\* every worker has terminated and every row sent was handled
C17_Witness ==
    /\ main.pc = "done"
    /\ \A w \in Workers : workers[w] = "finished"
    /\ \E w \in Workers : Len(hist.handled[w]) = 2
    /\ AllHandled

\* the rows of the emitted table that carry client id c, each named by the
\* database and the view id it was read from
EmittedRows(out, c) ==
    {wk \in UNION {{<<w, k>> : k \in DOMAIN out.tables[w]} : w \in DOMAIN out.tables} :
        out.tables[wk[1]][wk[2]].client_id = c}

C19_FatalStartupErrors ==
    /\ main.input \in {"no_path", "unreadable"}
         => main.pc # "done" /\ main.out = NoOutput
    /\ main.pc = "failed" => main.out = NoOutput
    /\ main.input = "no_path" => reader = "unstarted"
    /\ main.input = "readable" => main.pc # "failed"
    /\ main.pc = "done" => main.input = "readable" /\ main.out.header
    /\ reader = "panicked" => main.input = "unreadable"

\* the input file could not be opened: the sender thread panicked, the
\* workers found their channels closed, and main failed with nothing printed
C19_Witness ==
    /\ main.input = "unreadable"
    /\ main.pc = "failed"
    /\ reader = "panicked"
    /\ \A w \in Workers : workers[w] = "finished"

\* C20: the guards of the Account commands are evaluated in the stated order
\* and the first failing one decides the error, with no event produced:
\* Deposit, Withdraw and Dispute check the amount before the lock, then the
\* lock before anything else; Dispute checks the open dispute before the
\* available funds; Resolve and Chargeback check the lock before the
\* existence of the dispute.
C20_GuardOrder ==
    [][\A command \in Commands :
         LET c == command.client_id
             t == command.transaction_id
             acc == stores[0].accounts[c]
             err == outcome'.acc_err
         IN (outcome'.acc_cmd = command.type /\ Execute(command)) =>
              /\ err # "Ok" => stores'[0] = stores[0]
              /\ command \in AmountCommands =>
                   LET a == command.amount[1]
                       legal == a.m > 0 /\ a.s <= 4
                   IN /\ ~legal => err = "IllegalAmount"
                      /\ (legal /\ acc.locked) => err = "AccountLocked"
                      /\ (/\ legal
                          /\ ~acc.locked
                          /\ command.type = "DisputeFunds"
                          /\ t \in DOMAIN acc.disputes) => err = "DuplicateDispute"
                      /\ (/\ legal
                          /\ ~acc.locked
                          /\ command.type \in {"WithdrawAccount", "DisputeFunds"}
                          /\ command.type = "DisputeFunds" => t \notin DOMAIN acc.disputes
                          /\ DecLt(acc.funds_available, a)) => err = "InsufficientFunds"
              /\ command \in DisputeCommands =>
                   /\ acc.locked => err = "AccountLocked"
                   /\ (~acc.locked /\ t \notin DOMAIN acc.disputes)
                        => err = "DisputeNotFound"]_vars

\* a dispute of a tx id that is under dispute was repeated while the
\* available funds were below its amount, and was rejected as a duplicate
C20_Witness ==
    /\ outcome.acc_cmd = "DisputeFunds"
    /\ outcome.acc_err = "DuplicateDispute"
    /\ ~stores[0].accounts[AggClient].locked
    /\ DecEq(stores[0].accounts[AggClient].funds_available, DecZero)
    /\ stores[0].accounts[AggClient].funds_held.m > 0

\* C21: a Withdraw with a legal amount a on an unlocked account emits
\* AccountWithdrawn (available decreases by a; held, locked and disputes are
\* unchanged) exactly when available >= a, the boundary a = available
\* included, which leaves available at 0; when a exceeds available, by as
\* little as 0.0001, it fails with InsufficientFunds and nothing changes.
C21_WithdrawBoundary ==
    [][\A command \in AmountCommands :
         LET c == command.client_id
             a == command.amount[1]
             acc == stores[0].accounts[c]
             acc2 == stores'[0].accounts[c]
         IN (/\ outcome'.acc_cmd = command.type
             /\ command.type = "WithdrawAccount"
             /\ a.m > 0 /\ a.s <= 4
             /\ ~acc.locked
             /\ Execute(command)) =>
              IF DecLt(acc.funds_available, a)
              THEN /\ outcome'.acc_err = "InsufficientFunds"
                   /\ stores'[0] = stores[0]
              ELSE /\ outcome'.acc_err = "Ok"
                   /\ stores'[0].account_events[c] =
                        Append(stores[0].account_events[c],
                               AccountEvent("AccountWithdrawn", command, a))
                   /\ DecEq(DecAdd(acc2.funds_available, a), acc.funds_available)
                   /\ DecEq(acc.funds_available, a) => acc2.funds_available.m = 0
                   /\ acc2.funds_held = acc.funds_held
                   /\ acc2.locked = acc.locked
                   /\ acc2.disputes = acc.disputes]_vars

\* the whole of the available funds, 0.9999, was withdrawn and 0 is left
C21_Witness ==
    /\ outcome.acc_cmd = "WithdrawAccount"
    /\ outcome.acc_err = "Ok"
    /\ stores[0].account_events[AggClient] =
         <<AccountEvent("AccountDeposited",
                        [client_id |-> AggClient, transaction_id |-> "t1"],
                        Dec(9999, 4)),
           AccountEvent("AccountWithdrawn",
                        [client_id |-> AggClient, transaction_id |-> "t2"],
                        Dec(9999, 4))>>
    /\ stores[0].accounts[AggClient].funds_available.m = 0

\* C22: Deposit, Withdraw and Dispute with an amount that is <= 0 or has more
\* than 4 fractional digits fail with IllegalAmount in every account state
\* (locked or not, with or without funds or open disputes) and append no
\* event; consequently every amount carried by an account event is strictly
\* positive with scale <= 4.
C22_IllegalAmountRejected ==
    [][/\ \A command \in AmountCommands :
            LET a == command.amount[1] IN
            (/\ outcome'.acc_cmd = command.type
             /\ (a.m <= 0 \/ a.s > 4)
             /\ Execute(command)) =>
               /\ outcome'.acc_err = "IllegalAmount"
               /\ stores'[0] = stores[0]
       /\ \A c \in Clients :
            \A i \in 1 .. Len(stores'[0].account_events[c]) :
               LET e == stores'[0].account_events[c][i] IN
               e.amount.m > 0 /\ e.amount.s <= 4]_vars

\* an amount command was refused with IllegalAmount on a locked account
\* whose stream holds events
C22_Witness ==
    /\ outcome.acc_cmd \in {"DepositAccount", "WithdrawAccount", "DisputeFunds"}
    /\ outcome.acc_err = "IllegalAmount"
    /\ stores[0].accounts[AggClient].locked
    /\ Len(stores[0].account_events[AggClient]) = 3

\* C23: a Deposit with a legal amount a on an unlocked account always
\* succeeds and emits exactly one AccountDeposited carrying the command's
\* client id, tx id and amount; it adds a to available and leaves held,
\* locked and disputes unchanged.
C23_DepositFrame ==
    [][\A command \in AmountCommands :
         LET c == command.client_id
             a == command.amount[1]
             acc == stores[0].accounts[c]
             acc2 == stores'[0].accounts[c]
         IN (/\ outcome'.acc_cmd = command.type
             /\ command.type = "DepositAccount"
             /\ a.m > 0 /\ a.s <= 4
             /\ ~acc.locked
             /\ Execute(command)) =>
               /\ outcome'.acc_err = "Ok"
               /\ stores'[0].account_events[c] =
                    Append(stores[0].account_events[c],
                           [type |-> "AccountDeposited",
                            client_id |-> command.client_id,
                            transaction_id |-> command.transaction_id,
                            amount |-> a])
               /\ DecEq(DecSub(acc2.funds_available, a), acc.funds_available)
               /\ acc2.funds_held = acc.funds_held
               /\ acc2.locked = acc.locked
               /\ acc2.disputes = acc.disputes]_vars

\* a deposit was accepted on an unlocked account that has a dispute open and
\* funds held, and these are as before
C23_Witness ==
    /\ outcome.acc_cmd = "DepositAccount"
    /\ outcome.acc_err = "Ok"
    /\ ~stores[0].accounts[AggClient].locked
    /\ DOMAIN stores[0].accounts[AggClient].disputes = {"t1"}
    /\ stores[0].accounts[AggClient].funds_held = One
    /\ Last(stores[0].account_events[AggClient]).type = "AccountDeposited"

\* C24: a Resolve on an unlocked account with an open dispute on t emits
\* DisputeResolved whose amount is the amount the disputes map holds for t,
\* moves that amount from held back to available and removes t from the
\* map; a Dispute followed by a Resolve of the same tx restores available,
\* held and the disputes map to their values before the Dispute, and the
\* total of the view row is the same before, between and after.
C24_ResolveRestores ==
    [][\A command \in Commands :
         LET c == command.client_id
             t == command.transaction_id
             acc == stores[0].accounts[c]
             acc2 == stores'[0].accounts[c]
             Total(db) == db.accounts_view[c].total_funds
         IN (outcome'.acc_cmd = command.type /\ Execute(command)) =>
              /\ (/\ command.type = "ResolveDispute"
                  /\ ~acc.locked
                  /\ t \in DOMAIN acc.disputes) =>
                    LET d == acc.disputes[t] IN
                    /\ outcome'.acc_err = "Ok"
                    /\ stores'[0].account_events[c] =
                         Append(stores[0].account_events[c],
                                [type |-> "DisputeResolved", client_id |-> c,
                                 transaction_id |-> t, amount |-> d])
                    /\ DecEq(acc2.funds_available, DecAdd(acc.funds_available, d))
                    /\ DecEq(DecAdd(acc2.funds_held, d), acc.funds_held)
                    /\ acc2.disputes = MapRemove(acc.disputes, t)
                    /\ acc2.locked = acc.locked
                    /\ Total(stores'[0]) = Total(stores[0])
              /\ (command.type = "DisputeFunds" /\ outcome'.acc_err = "Ok") =>
                    LET back == AccountExecute(stores'[0],
                                    [type |-> "ResolveDispute", client_id |-> c,
                                     transaction_id |-> t, amount |-> <<>>])
                        acc3 == back.store.accounts[c]
                    IN /\ back.err = "Ok"
                       /\ DecEq(acc3.funds_available, acc.funds_available)
                       /\ DecEq(acc3.funds_held, acc.funds_held)
                       /\ acc3.disputes = acc.disputes
                       /\ acc3.locked = acc.locked
                       /\ Total(stores'[0]) = Total(stores[0])
                       /\ Total(back.store) = Total(stores[0])]_vars

\* 1.0 was deposited, disputed and the dispute resolved: 1.0 is available
\* again, nothing is held and no dispute is open
C24_Witness ==
    LET acc == stores[0].accounts[AggClient]
        events == stores[0].account_events[AggClient] IN
    /\ outcome.acc_cmd = "ResolveDispute"
    /\ outcome.acc_err = "Ok"
    /\ Len(events) = 3
    /\ events[1].type = "AccountDeposited"
    /\ events[2].type = "FundsDisputed"
    /\ events[3].type = "DisputeResolved"
    /\ events[3].amount = events[2].amount
    /\ DecEq(acc.funds_available, events[1].amount)
    /\ acc.funds_held.m = 0
    /\ acc.disputes = NoDisputes
    /\ ~acc.locked

\* C25: a Chargeback on an unlocked account with an open dispute of amount d
\* on t emits DisputeChargedback with amount d; available is unchanged, held
\* decreases by d, the total of the view row decreases by d, and the account
\* and its view row are locked.
C25_ChargebackEffect ==
    [][\A command \in DisputeCommands :
         LET c == command.client_id
             t == command.transaction_id
             acc == stores[0].accounts[c]
             acc2 == stores'[0].accounts[c]
             row == stores[0].accounts_view[c]
             row2 == stores'[0].accounts_view[c]
         IN (/\ outcome'.acc_cmd = command.type
             /\ command.type = "ChargebackDispute"
             /\ ~acc.locked
             /\ t \in DOMAIN acc.disputes
             /\ Execute(command)) =>
               LET d == acc.disputes[t] IN
               /\ outcome'.acc_err = "Ok"
               /\ stores'[0].account_events[c] =
                    Append(stores[0].account_events[c],
                           [type |-> "DisputeChargedback", client_id |-> c,
                            transaction_id |-> t, amount |-> d])
               /\ acc2.funds_available = acc.funds_available
               /\ DecEq(DecAdd(acc2.funds_held, d), acc.funds_held)
               /\ acc2.locked
               /\ row2.available_funds = row.available_funds
               /\ DecEq(DecAdd(row2.held_funds, d), row.held_funds)
               /\ DecEq(DecAdd(row2.total_funds, d), row.total_funds)
               /\ row2.is_locked]_vars

\* 1.0 and 0.9999 were deposited, the 0.9999 disputed and charged back: the
\* account is locked with 1.0 available, nothing held and a total of 1.0
C25_Witness ==
    LET acc == stores[0].accounts[AggClient]
        row == stores[0].accounts_view[AggClient] IN
    /\ outcome.acc_cmd = "ChargebackDispute"
    /\ outcome.acc_err = "Ok"
    /\ Last(stores[0].account_events[AggClient]).type = "DisputeChargedback"
    /\ Last(stores[0].account_events[AggClient]).amount = Dec(9999, 4)
    /\ acc.locked
    /\ DecEq(acc.funds_available, One)
    /\ acc.funds_held.m = 0
    /\ DecEq(row.total_funds, One)
    /\ row.is_locked

\* C26: a Resolve or Chargeback on an unlocked account naming a tx id with no
\* open dispute (never disputed, or already resolved) fails with
\* DisputeNotFound, appends no event and leaves the aggregate and the view
\* unchanged, also when other disputes are open on the account; the
\* orchestrator handling the resolve or chargeback record of that tx id on
\* the same store drops the failure and returns Ok.
C26_DisputeNotFound ==
    [][\A command \in DisputeCommands :
         LET c == command.client_id
             t == command.transaction_id
             acc == stores[0].accounts[c]
             r == CsvPaymentRecord(IF command.type = "ResolveDispute"
                                   THEN "resolve" ELSE "chargeback",
                                   c, t, NoAmount)
             handled == handle(stores[0], r)
         IN (/\ outcome'.acc_cmd = command.type
             /\ ~acc.locked
             /\ t \notin DOMAIN acc.disputes
             /\ Execute(command)) =>
               /\ outcome'.acc_err = "DisputeNotFound"
               /\ stores'[0] = stores[0]
               /\ handled.out.acc_cmd = command.type
               /\ handled.out.acc_err = "DisputeNotFound"
               /\ handled.out.result = "Ok"
               /\ handled.store = stores[0]]_vars

\* a Resolve or Chargeback of t2 was refused with DisputeNotFound on an
\* unlocked account on which t1 is under dispute
C26_Witness ==
    LET acc == stores[0].accounts[AggClient] IN
    /\ outcome.acc_cmd \in {"ResolveDispute", "ChargebackDispute"}
    /\ outcome.acc_err = "DisputeNotFound"
    /\ ~acc.locked
    /\ DOMAIN acc.disputes = {"t1"}
    /\ acc.funds_held.m > 0

\* C27: the two-step write is not rolled back.  When RecordTransaction
\* succeeds for a deposit or withdrawal row but the Account command that
\* follows is rejected (IllegalAmount, AccountLocked or InsufficientFunds),
\* the tx id stays recorded and the accounts and the view are unchanged; a
\* recorded tx id stays recorded, and every deposit or withdrawal row that
\* reuses the tx id on this worker afterwards is rejected and changes
\* nothing: with DuplicateTransaction when it carries an amount, for the
\* missing amount otherwise.
C27_NoRollback ==
    [][/\ \A r \in WorkerRows :
            LET t == r.tx_id
                db == stores[0]
                db2 == stores'[0] IN
            (/\ outcome'.tx_err = "Ok"
             /\ outcome'.acc_err # "Ok"
             /\ IsFundsRow(r)
             /\ HandleRow(r)) =>
               /\ outcome'.acc_err \in
                    {"IllegalAmount", "AccountLocked", "InsufficientFunds"}
               /\ ~db.transactions[t].recorded
               /\ db2.transactions[t].recorded
               /\ db2.transaction_events[t] =
                    <<TransactionRecorded(t, r.client_id, r.amount[1])>>
               /\ db2.accounts = db.accounts
               /\ db2.account_events = db.account_events
               /\ db2.accounts_view = db.accounts_view
               /\ \A r2 \in WorkerRows :
                    (IsFundsRow(r2) /\ r2.tx_id = t) =>
                       LET again == handle(db2, r2) IN
                       /\ again.store = db2
                       /\ again.out.acc_cmd = "none"
                       /\ r2.amount # NoAmount =>
                            again.out.tx_err = "DuplicateTransaction"
       /\ \A t \in TxIds :
            stores[0].transactions[t].recorded =>
               stores'[0].transactions[t].recorded]_vars

\* a withdrawal from an account without funds was refused with
\* InsufficientFunds; its tx id is recorded and no account has an event
C27_Witness ==
    /\ outcome.tx_err = "Ok"
    /\ outcome.acc_cmd = "WithdrawAccount"
    /\ outcome.acc_err = "InsufficientFunds"
    /\ \E t \in TxIds : stores[0].transactions[t].recorded
    /\ \A c \in Clients : stores[0].account_events[c] = <<>>
    /\ stores[0].accounts_view = EmptyAccountsTable

\* C30: on every path on which the process exits after database files of
\* workers were made, the path on which the sender thread fails on an
\* unreadable input file included, no database file of a worker is left on
\* disk when main has returned.
C30_TempDbsRemoved ==
    main.pc \in {"failed", "done"} => temp_dbs = {}

\* some step of CapSpec can be taken: the guards of its actions
CapStepEnabled ==
    \/ main.pc = "invoke"
    \/ reader = "running" /\ send.blocked = <<>>
    \/ UnblockEnabled
    \/ \E w \in Workers : HandleEnabled(w)
    \/ \E w \in Workers :
         workers[w] = "running" /\ queues[w] = <<>> /\ reader = "finished"
    \/ /\ main.pc = "join"
       /\ reader = "finished"
       /\ \A w \in Workers : workers[w] = "finished"

\* the input positions sent to worker w: those it has handled in handling
\* order, then those in its channel, then the one the sender is blocked on
PositionsOf(w) ==
    hist.handled[w] \o QueuedPositions(queues[w])
       \o (IF send.blocked # <<>> /\ BlockedOn = w
           THEN <<send.blocked[1].pos>> ELSE <<>>)

RECURSIVE HandleAll(_, _)
HandleAll(store, q) ==
    IF q = <<>> THEN store
    ELSE HandleAll(handle(store, Head(q).row).store, Tail(q))

\* the tasks that are handling a row
InFlight == {core_idx \in Workers : inflight[core_idx] # <<>>}

\* each channel has one consumer: a row in the hands of a task was sent to
\* the channel of that task and is handled on the database of that task
OneConsumerPerQueue ==
    \A core_idx \in InFlight :
        LET f == inflight[core_idx][1] IN
        /\ f.chan = core_idx
        /\ f.db = core_idx
        /\ <<f.pos, core_idx>> \in hist.routed

\* a task that is about to receive has finished both execute calls of all
\* rows it has received: its database, with the rows still in its channel
\* handled on top, is the database of the run that handles each row in one
\* piece
WholeRowBeforeNextRecv ==
    \A core_idx \in Workers \ InFlight :
        HandleAll(stores[core_idx], queues[core_idx]) = stores2[core_idx]

\* a loaded version is the current version until it is committed against
NoStaleVersion ==
    \A core_idx \in InFlight :
        LET f == inflight[core_idx][1] IN
        f.version # NoVersion =>
           f.version = Version(stores[f.db], AggregateId(f))

C31_ViewMatchesAggregate ==
    \A w \in Workers : \A c \in Clients :
        LET events == stores[w].account_events[c]
            replayed == AccountFold(Account, events)
            table == stores[w].accounts_view IN
        /\ stores[w].accounts[c] = replayed
        /\ c \in DOMAIN table <=> events # <<>>
        /\ c \in DOMAIN table =>
             /\ table[c] = ViewFold(AccountView, events)
             /\ table[c].available_funds = replayed.funds_available
             /\ table[c].held_funds = replayed.funds_held
             /\ table[c].is_locked = replayed.locked

\* a deposit of 1.0, a dispute of 0.9999 and its chargeback were folded into
\* both: the row and the aggregate are locked with 0.0001 available
C31_Witness ==
    LET events == stores[0].account_events[AggClient]
        table == stores[0].accounts_view IN
    /\ AggClient \in DOMAIN table
    /\ table[AggClient].is_locked
    /\ stores[0].accounts[AggClient].locked
    /\ table[AggClient].available_funds = Dec(1, 4)
    /\ Len(events) = 3
    /\ events[2].type = "FundsDisputed"

\* on an account without events every command but a deposit is refused
RefusedOnNewAccount ==
    \A command \in Commands :
        command.type # "DepositAccount"
          => /\ AccountHandle(Account, command).err # "Ok"
             /\ AccountHandle(Account, command).events = <<>>

\* C32: the first event of every account stream is AccountDeposited (on an
\* account without events a Withdraw and a Dispute are refused, and so are a
\* Resolve and a Chargeback), so every account view row has its client_id
\* set, to the client of its stream; folding an event other than
\* AccountDeposited leaves the client_id of the row as it was.
C32_FirstEventIsDeposit ==
    \A w \in Workers : \A c \in Clients :
        LET events == stores[w].account_events[c]
            table == stores[w].accounts_view
            RowAfter(n) == ViewFold(AccountView, SubSeq(events, 1, n)) IN
        /\ events # <<>> => events[1].type = "AccountDeposited"
        /\ c \in DOMAIN table =>
             /\ table[c].client_id = c
             /\ table[c].client_id # ""
        /\ \A i \in 1 .. Len(events) :
             events[i].type # "AccountDeposited"
               => RowAfter(i).client_id = RowAfter(i - 1).client_id
        /\ events = <<>> =>
             /\ stores[w].accounts[c] = Account
             /\ RefusedOnNewAccount

\* a stream that starts with the deposit and goes on with a withdrawal, after
\* at least one command was refused; the row carries the client id
C32_Witness ==
    LET events == stores[0].account_events[AggClient]
        table == stores[0].accounts_view IN
    /\ Len(events) = 2
    /\ fed > Len(events)
    /\ events[1].type = "AccountDeposited"
    /\ events[2].type = "AccountWithdrawn"
    /\ AggClient \in DOMAIN table
    /\ table[AggClient].client_id = AggClient

\* the sum of the amounts of the events of one type in a stream
RECURSIVE SumOf(_, _)
SumOf(events, type) ==
    IF events = <<>> THEN DecZero
    ELSE IF Head(events).type = type
    THEN DecAdd(Head(events).amount, SumOf(Tail(events), type))
    ELSE SumOf(Tail(events), type)

\* C33: funds conservation: in every reachable state the total of each
\* account view row equals the sum of the AccountDeposited amounts of the
\* account minus the sum of its AccountWithdrawn amounts minus the sum of its
\* DisputeChargedback amounts, and the total is not negative.
C33_FundsConservation ==
    \A w \in Workers : \A c \in DOMAIN stores[w].accounts_view :
        LET events == stores[w].account_events[c]
            row == stores[w].accounts_view[c] IN
        /\ DecEq(row.total_funds,
                 DecSub(DecSub(SumOf(events, "AccountDeposited"),
                               SumOf(events, "AccountWithdrawn")),
                        SumOf(events, "DisputeChargedback")))
        /\ row.total_funds.m >= 0

\* the whole deposit of 1.0 was disputed and charged back: the total is zero
C33_Witness ==
    \E c \in DOMAIN stores[0].accounts_view :
        LET events == stores[0].account_events[c]
            row == stores[0].accounts_view[c] IN
        /\ DecEq(SumOf(events, "AccountDeposited"), One)
        /\ DecEq(SumOf(events, "DisputeChargedback"), One)
        /\ row.total_funds.m = 0

\* the sum of the amounts stored in a disputes map
RECURSIVE SumMap(_)
SumMap(map) ==
    IF DOMAIN map = {} THEN DecZero
    ELSE LET k == CHOOSE x \in DOMAIN map : TRUE
         IN DecAdd(map[k], SumMap(MapRemove(map, k)))

\* event i of the stream opened a dispute that no later event of the stream
\* resolves or charges back
StillOpen(events, i) ==
    /\ events[i].type = "FundsDisputed"
    /\ \A j \in (i + 1) .. Len(events) :
         ~(/\ events[j].type \in {"DisputeResolved", "DisputeChargedback"}
           /\ events[j].transaction_id = events[i].transaction_id)

\* the sum of the amounts of the disputes opened by the first n events of the
\* stream and still open at its end
RECURSIVE SumOpen(_, _)
SumOpen(events, n) ==
    IF n = 0 THEN DecZero
    ELSE IF StillOpen(events, n)
    THEN DecAdd(events[n].amount, SumOpen(events, n - 1))
    ELSE SumOpen(events, n - 1)

\* C34: in every reachable state of an unlocked account, held equals the sum
\* of the amounts stored in the disputes map; and in every reachable state,
\* locked or not, held equals the sum of the amounts of the disputes that
\* were opened and neither resolved nor charged back.
C34_HeldIsSumOfOpenDisputes ==
    \A w \in Workers : \A c \in Clients :
        LET account == stores[w].accounts[c]
            events == stores[w].account_events[c] IN
        /\ ~account.locked
             => DecEq(account.funds_held, SumMap(account.disputes))
        /\ DecEq(account.funds_held, SumOpen(events, Len(events)))

\* an unlocked account with two open disputes, of 1.0 and of 0.9999
C34_Witness ==
    LET account == stores[0].accounts[AggClient] IN
    /\ ~account.locked
    /\ DOMAIN account.disputes = TxIds
    /\ account.funds_held = Dec(19999, 4)

\* the AccountDeposited and AccountWithdrawn events of a database that name
\* tx id t: the account and the position in its stream
FundsEvents(db, t) ==
    {<<c, i>> \in Clients \X (1 .. (MaxRows + 1)) :
        /\ i <= Len(db.account_events[c])
        /\ db.account_events[c][i].type \in {"AccountDeposited", "AccountWithdrawn"}
        /\ db.account_events[c][i].transaction_id = t}

\* C35: within one worker's store, every AccountDeposited or AccountWithdrawn
\* event naming tx id t is preceded by a TransactionRecorded event for t (the
\* row that appends the account event has recorded t first, in the same
\* handler), and each tx id is named by at most one AccountDeposited or
\* AccountWithdrawn event across all accounts of that worker.
C35_FundsEventAfterRecordOncePerTx ==
    [][\A t \in TxIds :
         LET db == stores[0]
             db2 == stores'[0] IN
         /\ Cardinality(FundsEvents(db2, t)) <= 1
         /\ FundsEvents(db2, t) # {} =>
              /\ Len(db2.transaction_events[t]) = 1
              /\ db2.transaction_events[t][1].id = t
              /\ db2.transactions[t].recorded
         /\ FundsEvents(db2, t) # FundsEvents(db, t) =>
              /\ FundsEvents(db, t) = {}
              /\ db.transaction_events[t] = <<>>
              /\ outcome'.tx_err = "Ok"
              /\ outcome'.acc_cmd \in {"DepositAccount", "WithdrawAccount"}
              /\ outcome'.acc_err = "Ok"]_vars

\* tx 1 was deposited to c1; a later deposit row of c2 with tx 1, routed to
\* the same worker, was refused as a duplicate and c2 has no event
C35_Witness ==
    /\ FundsEvents(stores[0], "t1") = {<<"c1", 1>>}
    /\ stores[0].account_events["c2"] = <<>>
    /\ outcome.tx_err = "DuplicateTransaction"
    /\ outcome.acc_cmd = "none"
    /\ chain.stage = "off"

\* tx id t was recorded in the database by a deposit row of client c
RecordedByDepositOf(db, t, c) ==
    /\ db.transaction_events[t] # <<>>
    /\ db.transaction_events[t][1].client_id = c
    /\ HasEvent(db, c, "AccountDeposited", t)

DisputedAndResolved(events, t) ==
    \E i \in 1 .. Len(events) : \E j \in (i + 1) .. Len(events) :
        /\ events[i].type = "FundsDisputed"
        /\ events[i].transaction_id = t
        /\ events[j].type = "DisputeResolved"
        /\ events[j].transaction_id = t

\* C37 as stated: each transaction id is disputed successfully at most once
\* per account: after FundsDisputed for tx t followed by DisputeResolved for
\* t, every later Dispute command for t on that account is rejected and
\* appends no FundsDisputed event.
C37_DisputedAtMostOnce ==
    [][\A command \in AmountCommands :
         LET c == command.client_id
             t == command.transaction_id
             db == stores[0]
             db2 == stores'[0] IN
         (/\ command.type = "DisputeFunds"
          /\ outcome'.acc_cmd = command.type
          /\ DisputedAndResolved(db.account_events[c], t)
          /\ Execute(command))
         => /\ outcome'.acc_err # "Ok"
            /\ db2.account_events[c] = db.account_events[c]]_vars

\* C37, amended: a transaction id has at most one open dispute per account.
\* While a dispute of t is open (FundsDisputed for t with no later
\* DisputeResolved or DisputeChargedback for t) every Dispute command for t
\* is rejected and appends nothing, with DuplicateDispute when the amount is
\* legal and the account is not locked, so two FundsDisputed events for t
\* always have a DisputeResolved for t between them.  After FundsDisputed
\* and DisputeResolved for t, with no dispute of t open, a later Dispute
\* command for t is accepted again and appends FundsDisputed when the
\* account is not locked and the amount is legal and within the available
\* funds.
C37_OneOpenDisputePerTx ==
    [][\A command \in AmountCommands :
         LET c == command.client_id
             t == command.transaction_id
             a == command.amount[1]
             db == stores[0]
             db2 == stores'[0]
             acc == db.accounts[c]
             events2 == db2.account_events[c] IN
         (/\ command.type = "DisputeFunds"
          /\ outcome'.acc_cmd = command.type
          /\ Execute(command))
         => /\ OpenDispute(db.account_events[c], t) =>
                 /\ outcome'.acc_err # "Ok"
                 /\ db2 = db
                 /\ (require_legal_amount(a) = "Ok" /\ ~acc.locked)
                      => outcome'.acc_err = "DuplicateDispute"
            /\ (/\ DisputedAndResolved(db.account_events[c], t)
                /\ ~OpenDispute(db.account_events[c], t)
                /\ require_legal_amount(a) = "Ok"
                /\ ~acc.locked
                /\ ~DecLt(acc.funds_available, a))
               => /\ outcome'.acc_err = "Ok"
                  /\ events2 = Append(db.account_events[c],
                                      AccountEvent("FundsDisputed", command, a))
            /\ \A i \in 1 .. Len(events2) : \A j \in (i + 1) .. Len(events2) :
                 (/\ events2[i].type = "FundsDisputed"
                  /\ events2[j].type = "FundsDisputed"
                  /\ events2[i].transaction_id = events2[j].transaction_id)
                 => \E k \in (i + 1) .. (j - 1) :
                      /\ events2[k].type = "DisputeResolved"
                      /\ events2[k].transaction_id = events2[i].transaction_id]_vars

\* tx 1 was deposited, disputed, resolved and disputed again: the stream
\* holds two FundsDisputed events for it and the second dispute is open
C37_Witness ==
    LET events == stores[0].account_events[AggClient] IN
    /\ Len(events) = 4
    /\ events[2].type = "FundsDisputed"
    /\ events[3].type = "DisputeResolved"
    /\ events[4].type = "FundsDisputed"
    /\ events[2].transaction_id = events[4].transaction_id
    /\ events[3].transaction_id = events[4].transaction_id
    /\ events[4].transaction_id \in DOMAIN stores[0].accounts[AggClient].disputes
    /\ outcome.acc_cmd = "DisputeFunds"
    /\ outcome.acc_err = "Ok"

====
